---- MODULE Spec2Model ----
(***************************************************************************)
(* Fetch-orchestration core of TinkyWiki-MCP.                              *)
(*                                                                         *)
(*   SpecDedup    - tinkywiki_mcp/dedup.py: caller threads running         *)
(*                  dedup_fetch(key, fetch_fn) against the in-flight       *)
(*                  registry.                                              *)
(*   SpecFallback - tinkywiki_mcp/fallback.py: fetch_page_with_fallback    *)
(*                  walking TinkyWiki -> DeepWiki -> GitHub API.           *)
(*   SpecRate     - tinkywiki_mcp/rate_limit.py: caller threads using the  *)
(*                  per-key sliding-window limiter against a clock.        *)
(*   SpecPool     - tinkywiki_mcp/session_pool.py: coroutines of the       *)
(*                  browser loop running _get_or_create, _release and      *)
(*                  _cleanup_all on the LRU pool.                          *)
(*   SpecBrowser  - tinkywiki_mcp/browser.py: caller threads going through  *)
(*                  run_in_browser_loop and the tasks of the background     *)
(*                  loop going through _get_browser and cleanup_browser.    *)
(***************************************************************************)
EXTENDS Integers, Sequences, FiniteSets, TLC

\* ------------------------------------------------------------------------
\* Bounds
\* ------------------------------------------------------------------------
MaxEntries == 2
MaxTextLen == 3
MaxPending == 2
MaxTime == 3
MaxAdmitted == 4
MaxPoolSize == 2
MaxUses == 2
MaxSessions == 3
MaxLaunches == 2
MaxLoops == 2

\* ------------------------------------------------------------------------
\* dedup.py : values and state
\* ------------------------------------------------------------------------
Threads == {"t1", "t2", "t3"}
Keys == {"k1", "k2"}
Values == {"v1"}
Errors == {"e1"}
None == "None"
NoEntry == 0
NoKey == "nokey"
EntryIds == 1..MaxEntries

VARIABLES
    inflight,     \* _inflight: key -> entry id, NoEntry when the key is absent
    entries,      \* the _InflightEntry objects: id -> [event, result, error]
    nextEntry,    \* id of the next _InflightEntry() to be constructed
    dpc,          \* position of each caller thread inside dedup_fetch
    dkey,         \* local `key`
    dentry,       \* local `entry`
    isOwner,      \* local `is_owner`
    timedOut,     \* history: the thread's event.wait(timeout=120) expired
    fnCalls,      \* history: executions of fetch_fn started for each entry
    eFn,          \* history: what fetch_fn returned or raised for each entry
    eSeen         \* history: outcomes of the dedup_fetch calls of each entry

dedupVars == <<inflight, entries, nextEntry, dpc, dkey, dentry, isOwner,
               timedOut, fnCalls, eFn, eSeen>>

VARIABLES
    cfg,          \* config.FALLBACK_ENABLED, DEEPWIKI_ENABLED, GITHUB_API_ENABLED
    fpc,          \* position inside fetch_page_with_fallback
    result,       \* local `result`
    twNotIndexed, \* local `tinkywiki_not_indexed`
    fret,         \* what fetch_page_with_fallback returned or raised
    autoIndex,    \* auto-index daemon threads that are still running
    calls,        \* history: the functions invoked by this request, in order
    srcOut        \* history: what each source's fetch function did

fallbackVars == <<cfg, fpc, result, twNotIndexed, fret, autoIndex, calls, srcOut>>

VARIABLES
    rcfg,         \* config.RATE_LIMIT_WINDOW_SECONDS, _MAX_CALLS, _AUTO_WAIT,
                  \* _MAX_WAIT_SECONDS
    clock,        \* time.monotonic(), in ticks
    windows,      \* _windows: key -> list of timestamps, in append order
    rpc,          \* position of each thread inside wait_for_rate_limit
    rkey,         \* local `key`
    rnow,         \* local `now` of the function the thread is in
    rwake,        \* earliest tick at which time.sleep(wait + 0.05) returns
    rok,          \* what wait_for_rate_limit returned
    rslept,       \* history: time.sleep calls made by the current call
    admLog        \* history: timestamp -> calls of key "a" admitted with it

rateVars == <<rcfg, clock, windows, rpc, rkey, rnow, rwake, rok, rslept,
              admLog>>

VARIABLES
    poolSize,     \* config.SESSION_POOL_SIZE
    pool,         \* _pool: the entries [url, uses, sid], least recently used
                  \* first; sid tells the _PoolEntry objects apart
    nextSid,      \* sid of the next _PoolEntry to be constructed
    plock,        \* the coroutine that holds _lock, None when it is free
    ppc,          \* position of each coroutine
    pfn,          \* the function the coroutine runs
    purl,         \* argument `url`
    pbroken,      \* argument `broken` of _release
    pret,         \* what the function returned or raised
    pentry,       \* sid of the entry the function returned, NoSid if none
    closedSids,   \* history: the entries passed to _close_entry
    pclosed,      \* history: urls whose entry the current call closed
    accessOrder   \* history: resident urls, least recent _get_or_create first

poolVars == <<poolSize, pool, nextSid, plock, ppc, pfn, purl, pbroken, pret,
              pentry, closedSids, pclosed, accessOrder>>

VARIABLES
    bloop,          \* _loop: the background event loop, NoLoop when None
    loopsCreated,   \* history: calls of asyncio.new_event_loop()
    threadsStarted, \* history: "pw-loop" threads started
    block,          \* the thread that holds browser._lock, None when free
    spc,            \* position of each caller thread in run_in_browser_loop
    sloop,          \* local `loop` of run_in_browser_loop
    stask,          \* the task behind the caller's future
    sret,           \* history: how the caller's last call ended
    tpc,            \* position of each task of the background loop
    tkind,          \* the coroutine the task runs
    tloop,          \* the loop the task was submitted to
    tbrowser,       \* local `browser` of the coroutine; inside _get_browser
                    \* the driver whose chromium.launch() is awaited
    browser,        \* _browser, NoBrowser when None
    pw,             \* _pw, NoBrowser when None
    nextB,          \* number of the next Playwright driver to be started
    connected,      \* the launched browsers for which is_connected() holds
    closedB         \* history: the browsers whose close() was called

browserVars == <<bloop, loopsCreated, threadsStarted, block, spc, sloop, stask,
                 sret, tpc, tkind, tloop, tbrowser, browser, pw, nextB,
                 connected, closedB>>

VARIABLES
    gpc,     \* position of the tool request inside fetch_page_or_error
    gresp    \* what fetch_page_or_error returned, NoResponse before that

gateVars == <<gpc, gresp>>

VARIABLES
    shpc,       \* position of the main thread: serving, or inside the shutdown
    shLeft,     \* history: the sessions still open when the engine was closed
    shErr,      \* history: the resources whose close() or stop() raised
    shStopped,  \* history: the drivers whose stop() was called
    shTimedOut  \* history: cleanup_pool gave up waiting for _cleanup_all

shutVars == <<shpc, shLeft, shErr, shStopped, shTimedOut>>

VARIABLES
    kpc,       \* position of each caller inside fetch_page_with_fallback
    kowner,    \* the caller whose dedup entry for the url is in flight
    kres,      \* what fetch_page_with_fallback returned to each caller
    ktw,       \* local tinkywiki_not_indexed of each caller
    kcount,    \* history: fetches started per source, indexing requests "R"
    koverlap   \* history: a call began while another one was in progress

collapseVars == <<kpc, kowner, kres, ktw, kcount, koverlap>>

VARIABLES
    held,     \* for each of the four locks the thread or task that holds it
    lpc,      \* position of each request thread on its way through the locks
    lkind,    \* the request the thread serves: a page fetch or a chat search
    lowner,   \* the thread whose dedup entry is in flight, None without one
    ltask     \* position of the coroutine the thread submitted to the loop

lockVars == <<held, lpc, lkind, lowner, ltask>>

VARIABLES
    hpc,      \* position of each _search_impl task
    hurl,     \* target_url of the task
    hold,     \* sid of the entry whose page the task is using, NoSid if none
    stolen,   \* history: how an entry was closed while a task was using it
    spun      \* history: the eviction loop took a turn on an empty pool

useVars == <<hpc, hurl, hold, stolen, spun>>

\* the state of the components that follow the browser bridge
moreVars == <<collapseVars, lockVars, useVars>>

vars == <<dedupVars, fallbackVars, rateVars, poolVars, browserVars, gateVars,
          shutVars, moreVars>>

\* what the actions of one component leave alone
notDedup ==
    <<fallbackVars, rateVars, poolVars, browserVars, gateVars, shutVars, moreVars>>
notFallback ==
    <<dedupVars, rateVars, poolVars, browserVars, gateVars, shutVars, moreVars>>
notRate ==
    <<dedupVars, fallbackVars, poolVars, browserVars, gateVars, shutVars, moreVars>>
notPool ==
    <<dedupVars, fallbackVars, rateVars, browserVars, gateVars, shutVars, moreVars>>
notBrowser ==
    <<dedupVars, fallbackVars, rateVars, poolVars, gateVars, shutVars, moreVars>>

NoOutcome == [kind |-> "none", val |-> None]
Returned(v) == [kind |-> "return", val |-> v]
Raised(e) == [kind |-> "raise", val |-> e]

\* _InflightEntry.__init__
NewInflightEntry == [event |-> FALSE, result |-> None, error |-> None]

\* a registry with one slot for all keys
SlotShared(k) == "k1"

\* the dict _inflight has one slot for each key
Slot(k) == k

\* the key is left in the registry
PoppedNot(reg, k) == reg

\* `_inflight.pop(key, None)`
Popped(reg, k) == [reg EXCEPT ![Slot(k)] = NoEntry]

\* a registry whose membership test never finds the key
InRegistryNever(reg, k) == FALSE

\* `key in _inflight`
InRegistry(reg, k) == reg[k] # NoEntry

DedupInit ==
    /\ inflight = [k \in Keys |-> NoEntry]
    /\ entries = [e \in EntryIds |-> NewInflightEntry]
    /\ nextEntry = 1
    /\ dpc = [t \in Threads |-> "idle"]
    /\ dkey = [t \in Threads |-> NoKey]
    /\ dentry = [t \in Threads |-> NoEntry]
    /\ isOwner = [t \in Threads |-> FALSE]
    /\ timedOut = [t \in Threads |-> FALSE]
    /\ fnCalls = [e \in EntryIds |-> 0]
    /\ eFn = [e \in EntryIds |-> NoOutcome]
    /\ eSeen = [e \in EntryIds |-> {}]

\* dedup_fetch, `with _lock:` block: join the in-flight entry of the key
DedupJoin(t, k) ==
    /\ dpc[t] = "idle"
    /\ InRegistry(inflight, Slot(k))
    /\ dkey' = [dkey EXCEPT ![t] = k]
    /\ dentry' = [dentry EXCEPT ![t] = inflight[Slot(k)]]
    /\ isOwner' = [isOwner EXCEPT ![t] = FALSE]
    /\ dpc' = [dpc EXCEPT ![t] = "wait"]
    /\ timedOut' = [timedOut EXCEPT ![t] = FALSE]
    /\ UNCHANGED <<inflight, entries, nextEntry, fnCalls, eFn, eSeen>>
    /\ UNCHANGED notDedup

\* dedup_fetch, `with _lock:` block: no entry for the key, become the owner
\* and enter fetch_fn()
DedupOwn(t, k) ==
    /\ dpc[t] = "idle"
    /\ ~InRegistry(inflight, Slot(k))
    /\ nextEntry <= MaxEntries
    /\ entries' = [entries EXCEPT ![nextEntry] = NewInflightEntry]
    /\ inflight' = [inflight EXCEPT ![Slot(k)] = nextEntry]
    /\ nextEntry' = nextEntry + 1
    /\ dkey' = [dkey EXCEPT ![t] = k]
    /\ dentry' = [dentry EXCEPT ![t] = nextEntry]
    /\ isOwner' = [isOwner EXCEPT ![t] = TRUE]
    /\ dpc' = [dpc EXCEPT ![t] = "fetching"]
    /\ timedOut' = [timedOut EXCEPT ![t] = FALSE]
    /\ fnCalls' = [fnCalls EXCEPT ![nextEntry] = @ + 1]
    /\ UNCHANGED <<eFn, eSeen>>
    /\ UNCHANGED notDedup

\* fetch_fn() returns v: entry.result = v
FetchReturn(t, v) ==
    /\ dpc[t] = "fetching"
    /\ entries' = [entries EXCEPT ![dentry[t]].result = v]
    /\ eFn' = [eFn EXCEPT ![dentry[t]] = Returned(v)]
    /\ dpc' = [dpc EXCEPT ![t] = "finally"]
    /\ UNCHANGED <<inflight, nextEntry, dkey, dentry, isOwner, timedOut,
                   fnCalls, eSeen>>
    /\ UNCHANGED notDedup

\* fetch_fn() raises e: entry.error = e
FetchRaise(t, e) ==
    /\ dpc[t] = "fetching"
    /\ entries' = [entries EXCEPT ![dentry[t]].error = e]
    /\ eFn' = [eFn EXCEPT ![dentry[t]] = Raised(e)]
    /\ dpc' = [dpc EXCEPT ![t] = "finally"]
    /\ UNCHANGED <<inflight, nextEntry, dkey, dentry, isOwner, timedOut,
                   fnCalls, eSeen>>
    /\ UNCHANGED notDedup

SignalledNot(ev) == ev

\* threading.Event.set(): the flag is true afterwards
Signalled(ev) == TRUE

\* finally: entry.event.set()
SetEvent(t) ==
    /\ dpc[t] = "finally"
    /\ entries' = [entries EXCEPT ![dentry[t]].event = Signalled(@)]
    /\ dpc' = [dpc EXCEPT ![t] = "pop"]
    /\ UNCHANGED <<inflight, nextEntry, dkey, dentry, isOwner, timedOut,
                   fnCalls, eFn, eSeen>>
    /\ UNCHANGED notDedup

\* finally: with _lock: _inflight.pop(key, None)
PopKey(t) ==
    /\ dpc[t] = "pop"
    /\ inflight' = Popped(inflight, dkey[t])
    /\ dpc' = [dpc EXCEPT ![t] = "check"]
    /\ UNCHANGED <<entries, nextEntry, dkey, dentry, isOwner, timedOut,
                   fnCalls, eFn, eSeen>>
    /\ UNCHANGED notDedup

\* entry.event.wait(timeout=120) returns because the event is set
WaitWake(t) ==
    /\ dpc[t] = "wait"
    /\ entries[dentry[t]].event
    /\ dpc' = [dpc EXCEPT ![t] = "check"]
    /\ UNCHANGED <<inflight, entries, nextEntry, dkey, dentry, isOwner,
                   timedOut, fnCalls, eFn, eSeen>>
    /\ UNCHANGED notDedup

\* entry.event.wait(timeout=120) returns because 120 s passed first
WaitTimeout(t) ==
    /\ dpc[t] = "wait"
    /\ ~entries[dentry[t]].event
    /\ dpc' = [dpc EXCEPT ![t] = "check"]
    /\ timedOut' = [timedOut EXCEPT ![t] = TRUE]
    /\ UNCHANGED <<inflight, entries, nextEntry, dkey, dentry, isOwner,
                   fnCalls, eFn, eSeen>>
    /\ UNCHANGED notDedup

\* the call is over: the thread's locals die with the frame
Leave(t) ==
    /\ dpc' = [dpc EXCEPT ![t] = "idle"]
    /\ dkey' = [dkey EXCEPT ![t] = NoKey]
    /\ dentry' = [dentry EXCEPT ![t] = NoEntry]
    /\ isOwner' = [isOwner EXCEPT ![t] = FALSE]
    /\ timedOut' = [timedOut EXCEPT ![t] = FALSE]

\* `if entry.error is not None: raise entry.error`
CheckError(t) ==
    /\ dpc[t] = "check"
    /\ IF entries[dentry[t]].error # None
       THEN /\ eSeen' = [eSeen EXCEPT ![dentry[t]] =
                            @ \cup {Raised(entries[dentry[t]].error)}]
            /\ Leave(t)
       ELSE /\ dpc' = [dpc EXCEPT ![t] = "ret"]
            /\ UNCHANGED <<dkey, dentry, isOwner, timedOut, eSeen>>
    /\ UNCHANGED <<inflight, entries, nextEntry, fnCalls, eFn>>
    /\ UNCHANGED notDedup

\* `return entry.result`
ReturnResult(t) ==
    /\ dpc[t] = "ret"
    /\ eSeen' = [eSeen EXCEPT ![dentry[t]] =
                    @ \cup {Returned(entries[dentry[t]].result)}]
    /\ Leave(t)
    /\ UNCHANGED <<inflight, entries, nextEntry, fnCalls, eFn>>
    /\ UNCHANGED notDedup

\* inflight_count()
InflightCount == Cardinality({k \in Keys : inflight[k] # NoEntry})

\* ------------------------------------------------------------------------
\* parser.py / config.py : pages and the not-indexed heuristics
\* ------------------------------------------------------------------------
\* units of page text: digits, an ordinary word, and the 404 page's sentence
\* ("This page doesn't exist", straight or curly apostrophe) as rendered and
\* in capitals
TextUnits == {"4", "0", "w", "Phrase", "PHRASE", "PhraseCurly"}

\* str.lower() on one unit
LowerUnit(u) ==
    CASE u = "Phrase" -> "phrase"
      [] u = "PHRASE" -> "phrase"
      [] u = "PhraseCurly" -> "phrasecurly"
      [] OTHER -> u

\* str.lower()
Lower(s) == [i \in 1..Len(s) |-> LowerUnit(s[i])]

\* `ind in text`
Contains(text, ind) ==
    \E i \in 1..(Len(text) - Len(ind) + 1) :
        SubSeq(text, i, i + Len(ind) - 1) = ind

NOT_INDEXED_INDICATORS == << <<"PhraseCurly">>, <<"Phrase">>, <<"4", "0", "4">> >>

Texts == UNION {[1..n -> TextUnits] : n \in 0..MaxTextLen}

\* `None` where a WikiPage is expected
NoPage == [sections |-> <<>>, raw_text |-> <<>>, origin |-> "None"]

\* WikiPage: sections (empty or not), raw_text, and the fetcher that built it
WikiPages(origin) ==
    [sections : {<<>>, <<"Intro">>}, raw_text : Texts, origin : {origin}]

\* fallback._is_not_indexed_error
IsNotIndexedError(page) ==
    IF page = NoPage THEN TRUE
    ELSE IF page.sections = <<>> /\ page.raw_text = <<>> THEN TRUE
    ELSE \E i \in 1..Len(NOT_INDEXED_INDICATORS) :
            Contains(Lower(page.raw_text), Lower(NOT_INDEXED_INDICATORS[i]))

\* tools/_helpers._is_not_indexed
IsNotIndexed(page) ==
    IF page.sections # <<>> THEN FALSE
    ELSE \E i \in 1..Len(NOT_INDEXED_INDICATORS) :
            Contains(Lower(page.raw_text), Lower(NOT_INDEXED_INDICATORS[i]))

\* ------------------------------------------------------------------------
\* fallback.py : fetch_page_with_fallback
\* ------------------------------------------------------------------------
SOURCE_CODEWIKI == "tinkywiki"
SOURCE_DEEPWIKI == "deepwiki"
SOURCE_GITHUB_API == "github_api"

\* what a source's fetch function did: returned a page, returned None
\* (page = NoPage), raised err, or was not called
PageReturned(p) == [kind |-> "return", page |-> p, err |-> None]
PageRaised(e) == [kind |-> "raise", page |-> NoPage, err |-> e]
NotCalled == [kind |-> "none", page |-> NoPage, err |-> None]

\* what dedup_fetch(repo_url, fetch_wiki_page) can hand to _try_tinkywiki:
\* a parsed page, None (a waiter whose wait timed out), or an exception
OutcomesA ==
    {PageReturned(p) : p \in WikiPages("A")} \cup {PageReturned(NoPage)}
        \cup {PageRaised("TimeoutError"), PageRaised("Exception")}

\* fetch_deepwiki_page: a page, None, or an exception
OutcomesB ==
    {PageReturned([sections |-> <<"Intro">>, raw_text |-> <<"w">>, origin |-> "B"]),
     PageReturned(NoPage), PageRaised("Exception")}

\* fetch_github_wiki_page: a page, None, or an exception
OutcomesC ==
    {PageReturned([sections |-> <<"Intro">>, raw_text |-> <<"w">>, origin |-> "C"]),
     PageReturned(NoPage), PageRaised("Exception")}

\* FallbackResult(page, source, tinkywiki_not_indexed, deepwiki_not_indexed)
FallbackResult(page, source, tw, dw) ==
    [page |-> page, source |-> source,
     tinkywiki_not_indexed |-> tw, deepwiki_not_indexed |-> dw]

\* `None` where a FallbackResult is expected
NoResult == FallbackResult(NoPage, "", FALSE, FALSE)

\* a call that came back with a FallbackResult / that let an exception out /
\* that has not come back
Ok(fr) == [kind |-> "return", exc |-> None, fr |-> fr]
Exc(e) == [kind |-> "raise", exc |-> e, fr |-> NoResult]
NotReturned == [kind |-> "none", exc |-> None, fr |-> NoResult]

\* _try_tinkywiki
TryTinkywiki(o) ==
    IF o.kind = "raise"
    THEN Ok(FallbackResult(NoPage, SOURCE_CODEWIKI, FALSE, FALSE))
    ELSE Ok(FallbackResult(o.page, SOURCE_CODEWIKI, FALSE, FALSE))

\* _try_deepwiki that tags what it fetched as coming from TinkyWiki
TryDeepwikiMistagged(o) ==
    IF o.kind = "raise"
    THEN Ok(FallbackResult(NoPage, SOURCE_DEEPWIKI, FALSE, FALSE))
    ELSE IF o.page # NoPage
         THEN Ok(FallbackResult(o.page, SOURCE_CODEWIKI, FALSE, FALSE))
         ELSE Ok(FallbackResult(NoPage, SOURCE_DEEPWIKI, FALSE, TRUE))

\* _try_deepwiki
TryDeepwiki(o) ==
    IF o.kind = "raise"
    THEN Ok(FallbackResult(NoPage, SOURCE_DEEPWIKI, FALSE, FALSE))
    ELSE IF o.page # NoPage
         THEN Ok(FallbackResult(o.page, SOURCE_DEEPWIKI, FALSE, FALSE))
         ELSE Ok(FallbackResult(NoPage, SOURCE_DEEPWIKI, FALSE, TRUE))

\* _try_github_api without its try/except
TryGithubApiUncaught(o) ==
    IF o.kind = "raise"
    THEN Exc(o.err)
    ELSE Ok(FallbackResult(o.page, SOURCE_GITHUB_API, FALSE, FALSE))

\* _try_github_api
TryGithubApi(o) ==
    IF o.kind = "raise"
    THEN Ok(FallbackResult(NoPage, SOURCE_GITHUB_API, FALSE, FALSE))
    ELSE Ok(FallbackResult(o.page, SOURCE_GITHUB_API, FALSE, FALSE))

\* a Layer 1 that never returns early
Layer1AcceptsNever(fr) == FALSE

\* `result.page is not None and not _is_not_indexed_error(result.page)`
Layer1Accepts(fr) == fr.page # NoPage /\ ~IsNotIndexedError(fr.page)

\* an `All layers failed` result that forgets the DeepWiki flag
AllFailedResultNoFlag(tw) == FallbackResult(NoPage, SOURCE_CODEWIKI, tw, FALSE)

\* the `All layers failed` result
AllFailedResult(tw) == FallbackResult(NoPage, SOURCE_CODEWIKI, tw, TRUE)

\* a Layer 2 that ignores config.DEEPWIKI_ENABLED
DeepwikiEnabledAlways(c) == TRUE

\* `if config.DEEPWIKI_ENABLED:`
DeepwikiEnabled(c) == c.DEEPWIKI_ENABLED

\* `if config.GITHUB_API_ENABLED:`
GithubApiEnabled(c) == c.GITHUB_API_ENABLED

Configs ==
    [FALLBACK_ENABLED : BOOLEAN, DEEPWIKI_ENABLED : BOOLEAN,
     GITHUB_API_ENABLED : BOOLEAN]

\* the defaults of config.py: every layer enabled
DefaultConfig ==
    [FALLBACK_ENABLED |-> TRUE, DEEPWIKI_ENABLED |-> TRUE,
     GITHUB_API_ENABLED |-> TRUE]

NoCalls == [A |-> NotCalled, B |-> NotCalled, C |-> NotCalled]

FallbackInit ==
    /\ cfg \in Configs
    /\ fpc = "idle"
    /\ result = NoResult
    /\ twNotIndexed = FALSE
    /\ fret = NotReturned
    /\ autoIndex = 0
    /\ calls = <<>>
    /\ srcOut = NoCalls

\* `return result`, or the exception of a callee going up the stack
FbReturn(r) ==
    /\ fpc' = "done"
    /\ result' = NoResult
    /\ twNotIndexed' = FALSE
    /\ fret' = r

\* a caller enters fetch_page_with_fallback(repo_url)
FbEnter ==
    /\ fpc \in {"idle", "done"}
    /\ autoIndex < MaxPending
    /\ fpc' = "enter"
    /\ result' = NoResult
    /\ twNotIndexed' = FALSE
    /\ fret' = NotReturned
    /\ calls' = <<>>
    /\ srcOut' = NoCalls
    /\ UNCHANGED <<cfg, autoIndex>>

\* fetch_page_with_fallback called on its own, outside a tool request
FbCall ==
    /\ FbEnter
    /\ UNCHANGED notFallback

\* `if not config.FALLBACK_ENABLED: return _try_tinkywiki(repo_url)`
FbOnlyTinkywiki ==
    /\ fpc = "enter"
    /\ ~cfg.FALLBACK_ENABLED
    /\ \E o \in OutcomesA :
        /\ calls' = Append(calls, "A")
        /\ srcOut' = [srcOut EXCEPT !.A = o]
        /\ FbReturn(TryTinkywiki(o))
    /\ UNCHANGED <<cfg, autoIndex>>
    /\ UNCHANGED notFallback

\* Layer 1: _try_tinkywiki, the early return, tinkywiki_not_indexed
FbLayer1 ==
    /\ fpc = "enter"
    /\ cfg.FALLBACK_ENABLED
    /\ \E o \in OutcomesA :
        LET r == TryTinkywiki(o) IN
        /\ calls' = Append(calls, "A")
        /\ srcOut' = [srcOut EXCEPT !.A = o]
        /\ IF r.exc # None \/ Layer1Accepts(r.fr)
           THEN FbReturn(r)
           ELSE /\ result' = r.fr
                /\ twNotIndexed' =
                       (r.fr.page = NoPage \/ IsNotIndexedError(r.fr.page))
                /\ fpc' = "index"
                /\ UNCHANGED fret
    /\ UNCHANGED <<cfg, autoIndex>>
    /\ UNCHANGED notFallback

\* the indexing request is never made
RequestsIndexingNever(tw) == FALSE

\* `if tinkywiki_not_indexed:` in front of the indexing request
RequestsIndexing(tw) == tw

\* `if tinkywiki_not_indexed: _request_tinkywiki_indexing_async(repo_url)`:
\* starts the daemon thread "auto-index" and goes on without joining it
FbRequestIndexing ==
    /\ fpc = "index"
    /\ IF RequestsIndexing(twNotIndexed)
       THEN /\ autoIndex' = autoIndex + 1
            /\ calls' = Append(calls, "R")
       ELSE UNCHANGED <<autoIndex, calls>>
    /\ fpc' = "layer2"
    /\ UNCHANGED <<cfg, result, twNotIndexed, fret, srcOut>>
    /\ UNCHANGED notFallback

\* Layer 2: `if config.DEEPWIKI_ENABLED:` _try_deepwiki
FbLayer2 ==
    /\ fpc = "layer2"
    /\ DeepwikiEnabled(cfg)
    /\ \E o \in OutcomesB :
        LET r == TryDeepwiki(o) IN
        /\ calls' = Append(calls, "B")
        /\ srcOut' = [srcOut EXCEPT !.B = o]
        /\ IF r.exc # None
           THEN FbReturn(r)
           ELSE LET res == [r.fr EXCEPT !.tinkywiki_not_indexed = twNotIndexed]
                IN  IF res.page # NoPage
                    THEN FbReturn(Ok(res))
                    ELSE /\ result' = res
                         /\ fpc' = "layer3"
                         /\ UNCHANGED <<twNotIndexed, fret>>
    /\ UNCHANGED <<cfg, autoIndex>>
    /\ UNCHANGED notFallback

\* Layer 2 skipped: config.DEEPWIKI_ENABLED is false
FbSkipLayer2 ==
    /\ fpc = "layer2"
    /\ ~DeepwikiEnabled(cfg)
    /\ fpc' = "layer3"
    /\ UNCHANGED <<cfg, result, twNotIndexed, fret, autoIndex, calls, srcOut>>
    /\ UNCHANGED notFallback

\* Layer 3: `if config.GITHUB_API_ENABLED:` _try_github_api
FbLayer3 ==
    /\ fpc = "layer3"
    /\ GithubApiEnabled(cfg)
    /\ \E o \in OutcomesC :
        LET r == TryGithubApi(o) IN
        /\ calls' = Append(calls, "C")
        /\ srcOut' = [srcOut EXCEPT !.C = o]
        /\ IF r.exc # None
           THEN FbReturn(r)
           ELSE LET res == [r.fr EXCEPT !.tinkywiki_not_indexed = twNotIndexed,
                                        !.deepwiki_not_indexed = TRUE]
                IN  IF res.page # NoPage
                    THEN FbReturn(Ok(res))
                    ELSE /\ result' = res
                         /\ fpc' = "failed"
                         /\ UNCHANGED <<twNotIndexed, fret>>
    /\ UNCHANGED <<cfg, autoIndex>>
    /\ UNCHANGED notFallback

\* Layer 3 skipped: config.GITHUB_API_ENABLED is false
FbSkipLayer3 ==
    /\ fpc = "layer3"
    /\ ~GithubApiEnabled(cfg)
    /\ fpc' = "failed"
    /\ UNCHANGED <<cfg, result, twNotIndexed, fret, autoIndex, calls, srcOut>>
    /\ UNCHANGED notFallback

\* `# All layers failed`
FbAllFailed ==
    /\ fpc = "failed"
    /\ FbReturn(Ok(AllFailedResult(twNotIndexed)))
    /\ UNCHANGED <<cfg, autoIndex, calls, srcOut>>
    /\ UNCHANGED notFallback

\* _do_request on the daemon thread: _run_request_indexing returns or raises,
\* either way the thread ends
AutoIndexEnd ==
    /\ autoIndex > 0
    /\ autoIndex' = autoIndex - 1
    /\ UNCHANGED <<cfg, fpc, result, twNotIndexed, fret, calls, srcOut>>
    /\ UNCHANGED notFallback

\* ------------------------------------------------------------------------
\* rate_limit.py : per-key sliding window
\* Time is counted in ticks of the clock; the 0.05 s margin of the sleep is
\* one tick, the smallest positive duration.  One thread is followed through
\* wait_for_rate_limit; the check_rate_limit and rate_limit_remaining calls
\* of all other threads are single lock sections whose `now` was read at
\* some tick before the lock was taken.  The admitted calls are logged for
\* one key; the functions treat every key alike.
\* ------------------------------------------------------------------------
Callers == {"c1"}
RepoKeys == {"a", "b"}
Ticks == 0..MaxTime
NoTime == -1
SLEEP_MARGIN == 1

\* settings of the four TINKYWIKI_RATE_LIMIT_* environment variables
RateConfigs ==
    [window : {2}, max_calls : {1, 2}, auto_wait : BOOLEAN, max_wait : {1}]

\* auto-wait on, the default of config.py
DefaultRateConfig ==
    [window |-> 2, max_calls |-> 2, auto_wait |-> TRUE, max_wait |-> 1]

Max(x, y) == IF x >= y THEN x ELSE y

\* sorted(...)[0]
Oldest(ts) == CHOOSE x \in {ts[i] : i \in 1..Len(ts)} :
                  \A i \in 1..Len(ts) : x <= ts[i]

\* every timestamp counts, expired or not
ActiveUnfiltered(ts, now, c) == ts

\* `cutoff = now - window` and `[t for t in timestamps if t > cutoff]`
Active(ts, now, c) == SelectSeq(ts, LAMBDA x : x > now - c.window)

\* the body of time_until_next_slot under the lock
TimeUntilNextSlot(ts, now, c) ==
    LET active == Active(ts, now, c) IN
    IF Len(active) < c.max_calls
    THEN 0
    ELSE Max(0, (Oldest(active) + c.window) - now)

\* the wait is never too long
GivesUpNever(wait, c) == FALSE

\* `if wait > max_wait:`
GivesUp(wait, c) == wait > c.max_wait

\* one call too many is let through
LimitReachedLate(ts, c) == Len(ts) > c.max_calls

\* `if len(timestamps) >= max_calls:`
LimitReached(ts, c) == Len(ts) >= c.max_calls

\* the remaining calls are counted without the floor at 0 and one short
RateLimitRemainingShort(ts, now, c) ==
    c.max_calls - Len(Active(ts, now, c)) - 1

\* the body of rate_limit_remaining under the lock
RateLimitRemaining(ts, now, c) ==
    Max(0, c.max_calls - Len(Active(ts, now, c)))

\* every key shares one window
WindowOfShared(k) == "a"

\* `_windows.setdefault(key, [])`: the list the call works on
WindowOf(k) == k

\* lines 42-59 of check_rate_limit as a function of the list and `now`:
\* the list left behind and the value returned
CheckRateLimit(ts, now, c) ==
    LET pruned == Active(ts, now, c) IN
    IF LimitReached(pruned, c)
    THEN [ts |-> pruned, ok |-> FALSE]
    ELSE [ts |-> Append(pruned, now), ok |-> TRUE]

LoggedKey == "a"
NoLog == [x \in Ticks |-> 0]

RECURSIVE SumTo(_, _)
SumTo(f, n) == IF n < 0 THEN 0 ELSE f[n] + SumTo(f, n - 1)

\* admitted calls of the logged key so far
AdmTotal == SumTo(admLog, MaxTime)

RateInit ==
    /\ rcfg \in RateConfigs
    /\ clock = 0
    /\ windows = [k \in RepoKeys |-> <<>>]
    /\ rpc = [t \in Callers |-> "idle"]
    /\ rkey = [t \in Callers |-> "a"]
    /\ rnow = [t \in Callers |-> NoTime]
    /\ rwake = [t \in Callers |-> NoTime]
    /\ rok = [t \in Callers |-> "none"]
    /\ rslept = [t \in Callers |-> 0]
    /\ admLog = NoLog

\* time passes
Tick ==
    /\ clock < MaxTime
    /\ clock' = clock + 1
    /\ UNCHANGED <<rcfg, windows, rpc, rkey, rnow, rwake, rok, rslept, admLog>>
    /\ UNCHANGED notRate

\* the effect of one check_rate_limit(k) with `now` on the shared state
Checked(k, now) ==
    LET r == CheckRateLimit(windows[WindowOf(k)], now, rcfg) IN
    /\ k = LoggedKey => AdmTotal < MaxAdmitted
    /\ windows' = [windows EXCEPT ![WindowOf(k)] = r.ts]
    /\ admLog' = IF r.ok /\ k = LoggedKey
                 THEN [admLog EXCEPT ![now] = @ + 1]
                 ELSE admLog

\* check_rate_limit(k) of another thread: `now` was read at tick n, the lock
\* is taken at the current tick
RlCheckRateLimit(k, n) ==
    /\ n <= clock
    /\ Checked(k, n)
    /\ UNCHANGED <<rcfg, clock, rpc, rkey, rnow, rwake, rok, rslept>>
    /\ UNCHANGED notRate

\* rate_limit_remaining(k) of another thread, `now` read at tick n: the
\* lock section returns a number and writes nothing
RlRemaining(k, n) ==
    /\ n <= clock
    /\ RateLimitRemaining(windows[WindowOf(k)], n, rcfg) \in Int
    /\ UNCHANGED rateVars
    /\ UNCHANGED notRate

\* time_until_next_slot(k) of another thread, `now` read at tick n: the lock
\* section returns a number and writes nothing
RlTimeUntilNextSlot(k, n) ==
    /\ n <= clock
    /\ TimeUntilNextSlot(windows[WindowOf(k)], n, rcfg) \in Int
    /\ UNCHANGED rateVars
    /\ UNCHANGED notRate

\* the thread calls wait_for_rate_limit(k); with or without auto-wait the
\* first thing run is check_rate_limit's `now = time.monotonic()`
RlEnter(t, k) ==
    /\ rpc[t] = "idle"
    /\ rkey' = [rkey EXCEPT ![t] = k]
    /\ rnow' = [rnow EXCEPT ![t] = clock]
    /\ rpc' = [rpc EXCEPT ![t] = "check"]
    /\ rwake' = [rwake EXCEPT ![t] = NoTime]
    /\ rok' = [rok EXCEPT ![t] = "none"]
    /\ rslept' = [rslept EXCEPT ![t] = 0]
    /\ UNCHANGED <<rcfg, clock, windows, admLog>>

\* wait_for_rate_limit called on its own, outside a tool request
RlCall(t, k) ==
    /\ RlEnter(t, k)
    /\ UNCHANGED notRate

\* wait_for_rate_limit returns
RlReturn(t, ok) ==
    /\ rok' = [rok EXCEPT ![t] = IF ok THEN "true" ELSE "false"]
    /\ rpc' = [rpc EXCEPT ![t] = "idle"]
    /\ rnow' = [rnow EXCEPT ![t] = NoTime]
    /\ rwake' = [rwake EXCEPT ![t] = NoTime]

\* the first check_rate_limit of wait_for_rate_limit under _lock: with
\* auto-wait on a rejection leads on to time_until_next_slot, every other
\* result is returned
RlCheck(t) ==
    /\ rpc[t] = "check"
    /\ Checked(rkey[t], rnow[t])
    /\ LET ok == CheckRateLimit(windows[WindowOf(rkey[t])], rnow[t], rcfg).ok
       IN  IF rcfg.auto_wait /\ ~ok
           THEN /\ rpc' = [rpc EXCEPT ![t] = "slotnow"]
                /\ UNCHANGED <<rok, rnow, rwake>>
           ELSE RlReturn(t, ok)
    /\ UNCHANGED <<rcfg, clock, rkey, rslept>>
    /\ UNCHANGED notRate

\* `return check_rate_limit(key)` after the wait: the re-check under _lock
RlRecheck(t) ==
    /\ rpc[t] = "recheck"
    /\ Checked(rkey[t], rnow[t])
    /\ RlReturn(t, CheckRateLimit(windows[WindowOf(rkey[t])], rnow[t], rcfg).ok)
    /\ UNCHANGED <<rcfg, clock, rkey, rslept>>
    /\ UNCHANGED notRate

\* time_until_next_slot: `now = time.monotonic()`
RlSlotNow(t) ==
    /\ rpc[t] = "slotnow"
    /\ rnow' = [rnow EXCEPT ![t] = clock]
    /\ rpc' = [rpc EXCEPT ![t] = "slot"]
    /\ UNCHANGED <<rcfg, clock, windows, rkey, rwake, rok, rslept, admLog>>
    /\ UNCHANGED notRate

\* time_until_next_slot under _lock, and what wait_for_rate_limit does with
\* the wait: re-check at once, give up, or time.sleep(wait + 0.05)
RlSlot(t) ==
    /\ rpc[t] = "slot"
    /\ LET wait == TimeUntilNextSlot(windows[WindowOf(rkey[t])], rnow[t], rcfg)
       IN  CASE wait <= 0 ->
                     /\ rpc' = [rpc EXCEPT ![t] = "nosleep"]
                     /\ UNCHANGED <<rok, rnow, rwake, rslept>>
             [] wait > 0 /\ GivesUp(wait, rcfg) ->
                     /\ RlReturn(t, FALSE)
                     /\ UNCHANGED rslept
             [] OTHER ->
                     /\ rpc' = [rpc EXCEPT ![t] = "sleep"]
                     /\ rwake' = [rwake EXCEPT ![t] = clock + wait + SLEEP_MARGIN]
                     /\ rslept' = [rslept EXCEPT ![t] = @ + 1]
                     /\ UNCHANGED <<rok, rnow>>
    /\ UNCHANGED <<rcfg, clock, windows, rkey, admLog>>
    /\ UNCHANGED notRate

\* `if wait <= 0: return check_rate_limit(key)`: the re-check reads the clock
RlRecheckNow(t) ==
    /\ rpc[t] = "nosleep"
    /\ rnow' = [rnow EXCEPT ![t] = clock]
    /\ rpc' = [rpc EXCEPT ![t] = "recheck"]
    /\ UNCHANGED <<rcfg, clock, windows, rkey, rwake, rok, rslept, admLog>>
    /\ UNCHANGED notRate

\* time.sleep returns, not before wait + 0.05 has passed, and the re-check
\* reads the clock
RlWake(t) ==
    /\ rpc[t] = "sleep"
    /\ clock >= rwake[t]
    /\ rnow' = [rnow EXCEPT ![t] = clock]
    /\ rpc' = [rpc EXCEPT ![t] = "recheck"]
    /\ UNCHANGED <<rcfg, clock, windows, rkey, rwake, rok, rslept, admLog>>
    /\ UNCHANGED notRate

\* ------------------------------------------------------------------------
\* session_pool.py : LRU pool of warm browser sessions
\* ------------------------------------------------------------------------
Coroutines == {"p1", "p2"}
Urls == {"u1", "u2", "u3"}
NoSid == 0

\* `url in _pool`
InPool(p, u) == \E i \in 1..Len(p) : p[i].url = u

\* _pool[url]
EntryOf(p, u) == p[CHOOSE i \in 1..Len(p) : p[i].url = u]

\* _pool.pop(url)
Without(p, u) == SelectSeq(p, LAMBDA e : e.url # u)

\* the reused entry keeps its place in the order
MoveToEndNot(p, u) == p

\* _pool.move_to_end(url)
MoveToEnd(p, u) == Append(Without(p, u), EntryOf(p, u))

\* the pool is let grow one entry past the limit
AtCapacityLate(p, size) == Len(p) > size

\* `len(_pool) >= config.SESSION_POOL_SIZE`
AtCapacity(p, size) == Len(p) >= size

\* _create_entry's _PoolEntry(url=url, ...) after `entry.uses = 1`
NewEntry(u, sid) == [url |-> u, uses |-> 1, sid |-> sid]

\* the use of a resident entry is not counted
UsedNot(e) == e

\* `entry.uses += 1`
Used(e) == [e EXCEPT !.uses = @ + 1]

\* a release evicts the entry whether or not it is reported broken
EvictsUnbroken(broken, resident) == resident

\* _release: `if broken and url in _pool`
Evicts(broken, resident) == broken /\ resident

\* the urls of a list of urls without u
Forget(order, u) == SelectSeq(order, LAMBDA x : x # u)

\* the module is imported: the pool is empty and _lock is free
PoolStart ==
    /\ pool = <<>>
    /\ nextSid = 1
    /\ plock = None
    /\ ppc = [t \in Coroutines |-> "idle"]
    /\ pfn = [t \in Coroutines |-> "none"]
    /\ purl = [t \in Coroutines |-> "u1"]
    /\ pbroken = [t \in Coroutines |-> FALSE]
    /\ pret = [t \in Coroutines |-> "none"]
    /\ pentry = [t \in Coroutines |-> NoSid]
    /\ closedSids = {}
    /\ pclosed = [t \in Coroutines |-> {}]
    /\ accessOrder = <<>>

\* a pool configured with room for one session at least
PoolInit ==
    /\ poolSize \in 1..MaxPoolSize
    /\ PoolStart

\* run_in_browser_loop schedules _get_or_create(url), _release(url, broken)
\* or _cleanup_all(); the coroutine reaches `async with _lock`
PoolEnter(t, fn, u, b) ==
    /\ ppc[t] = "idle"
    /\ fn = "_release" \/ ~b
    /\ fn = "_cleanup_all" => u = "u1"
    /\ ppc' = [ppc EXCEPT ![t] = "lock"]
    /\ pfn' = [pfn EXCEPT ![t] = fn]
    /\ purl' = [purl EXCEPT ![t] = u]
    /\ pbroken' = [pbroken EXCEPT ![t] = b]
    /\ pret' = [pret EXCEPT ![t] = "none"]
    /\ pentry' = [pentry EXCEPT ![t] = NoSid]
    /\ pclosed' = [pclosed EXCEPT ![t] = {}]
    /\ UNCHANGED <<poolSize, pool, nextSid, plock, closedSids, accessOrder>>

\* a request thread calls get_or_create_session, release_session or
\* cleanup_pool
PoolCall(t, fn, u, b) ==
    /\ PoolEnter(t, fn, u, b)
    /\ UNCHANGED notPool

\* `async with _lock:` is entered
FreeAlways(holder) == TRUE

\* asyncio.Lock.acquire goes through only when nobody holds the lock
Free(holder) == holder = None

Acquire(t) ==
    /\ ppc[t] = "lock"
    /\ Free(plock)
    /\ plock' = t
    /\ ppc' = [ppc EXCEPT ![t] = "locked"]
    /\ UNCHANGED <<poolSize, pool, nextSid, pfn, purl, pbroken, pret, pentry,
                   closedSids, pclosed, accessOrder>>

PoolAcquire(t) ==
    /\ Acquire(t)
    /\ UNCHANGED notPool

\* the sessions of the pool's entries
SidsOf(p) == {p[i].sid : i \in 1..Len(p)}

\* the entries _close_entry was called for when the close of one of
\* `fails` ended the loop
UpToFailure(p, fails) ==
    {p[i].sid : i \in {j \in 1..Len(p) : \A h \in 1..(j - 1) : p[h].sid \notin fails}}

SuppressedNot(raised) == ~raised

\* `try: await ....close()` / `except Exception: logger.debug(...)`: whether
\* the statement after the try block is reached
Suppressed(raised) == TRUE

\* the entries are closed and stay in the pool
ClearedNot(p) == p

\* `_pool.clear()`
Cleared(p) == <<>>

\* the lock stays with the coroutine that leaves
UnlockedNot(holder) == holder

UnlockedLate(holder) == holder

\* the end of `async with _lock`, by a return or by an exception
Unlocked(holder) == None

\* what is kept of the calls that are over: the latest one only
Latest(f, t, none) ==
    [u \in Coroutines |-> IF u # t /\ ppc[u] = "idle" THEN none ELSE f[u]]

\* the function leaves `async with _lock` by a return or an exception and
\* its arguments are gone; r is what it returned or raised, e the entry it
\* returned and closed the urls whose entries it closed
PoolLeave(t, r, e, closed) ==
    /\ plock' = Unlocked(t)
    /\ ppc' = [ppc EXCEPT ![t] = "idle"]
    /\ pret' = [Latest(pret, t, "none") EXCEPT ![t] = r]
    /\ pentry' = [Latest(pentry, t, NoSid) EXCEPT ![t] = e]
    /\ pclosed' = [Latest(pclosed, t, {}) EXCEPT ![t] = closed]
    /\ pfn' = Latest(pfn, t, "none")
    /\ purl' = [purl EXCEPT ![t] = "u1"]
    /\ pbroken' = [pbroken EXCEPT ![t] = FALSE]

\* _get_or_create: `if url in _pool:` move_to_end, uses += 1, return entry
Reuse(t) ==
    /\ ppc[t] = "locked"
    /\ pfn[t] = "_get_or_create"
    /\ InPool(pool, purl[t])
    /\ EntryOf(pool, purl[t]).uses < MaxUses
    /\ LET moved == MoveToEnd(pool, purl[t]) IN
       pool' = [moved EXCEPT ![Len(moved)] = Used(@)]
    /\ accessOrder' = Append(Forget(accessOrder, purl[t]), purl[t])
    /\ PoolLeave(t, "entry", EntryOf(pool, purl[t]).sid, pclosed[t])
    /\ UNCHANGED <<poolSize, nextSid, closedSids>>

PoolReuse(t) ==
    /\ Reuse(t)
    /\ UNCHANGED notPool

\* _get_or_create: one turn of `while len(_pool) >= SESSION_POOL_SIZE:`,
\* _evict_oldest pops the first entry and _close_entry closes it
EvictOldest(t) ==
    /\ ppc[t] = "locked"
    /\ pfn[t] = "_get_or_create"
    /\ ~InPool(pool, purl[t])
    /\ AtCapacity(pool, poolSize)
    /\ pool # <<>>
    /\ pool' = Tail(pool)
    /\ pclosed' = [pclosed EXCEPT ![t] = @ \cup {Head(pool).url}]
    /\ accessOrder' = Forget(accessOrder, Head(pool).url)
    /\ closedSids' = closedSids \cup {Head(pool).sid}
    /\ UNCHANGED <<poolSize, nextSid, plock, ppc, pfn, purl, pbroken, pret,
                   pentry>>

PoolEvict(t) ==
    /\ EvictOldest(t)
    /\ UNCHANGED notPool

\* _get_or_create: _create_entry returns and the entry is stored with
\* uses = 1, or _create_entry raises and the exception leaves the function
CreateEntry(t, ok) ==
    /\ ppc[t] = "locked"
    /\ pfn[t] = "_get_or_create"
    /\ ~InPool(pool, purl[t])
    /\ ~AtCapacity(pool, poolSize)
    /\ IF ok
       THEN /\ nextSid <= MaxSessions
            /\ pool' = Append(pool, NewEntry(purl[t], nextSid))
            /\ nextSid' = nextSid + 1
            /\ accessOrder' = Append(accessOrder, purl[t])
            /\ PoolLeave(t, "entry", nextSid, pclosed[t])
       ELSE /\ UNCHANGED <<pool, nextSid, accessOrder>>
            /\ PoolLeave(t, "raised", NoSid, pclosed[t])
    /\ UNCHANGED <<poolSize, closedSids>>

PoolCreate(t, ok) ==
    /\ CreateEntry(t, ok)
    /\ UNCHANGED notPool

\* _release: a broken entry that is in the pool is popped and closed
Release(t) ==
    /\ ppc[t] = "locked"
    /\ pfn[t] = "_release"
    /\ IF Evicts(pbroken[t], InPool(pool, purl[t]))
       THEN /\ pool' = Without(pool, purl[t])
            /\ closedSids' = closedSids \cup {EntryOf(pool, purl[t]).sid}
            /\ accessOrder' = Forget(accessOrder, purl[t])
            /\ PoolLeave(t, "None", NoSid, {purl[t]})
       ELSE /\ UNCHANGED <<pool, closedSids, accessOrder>>
            /\ PoolLeave(t, "None", NoSid, pclosed[t])
    /\ UNCHANGED <<poolSize, nextSid>>

PoolRelease(t) ==
    /\ Release(t)
    /\ UNCHANGED notPool

\* _cleanup_all: every entry is closed and the pool cleared
CleanupAll(t, fails) ==
    /\ ppc[t] = "locked"
    /\ pfn[t] = "_cleanup_all"
    /\ fails \subseteq SidsOf(pool)
    /\ IF Suppressed(fails # {})
       THEN /\ pool' = Cleared(pool)
            /\ closedSids' = closedSids \cup SidsOf(pool)
            /\ accessOrder' = <<>>
            /\ PoolLeave(t, "None", NoSid, {pool[i].url : i \in 1..Len(pool)})
       ELSE /\ closedSids' = closedSids \cup UpToFailure(pool, fails)
            /\ PoolLeave(t, "raised", NoSid, pclosed[t])
            /\ UNCHANGED <<pool, accessOrder>>
    /\ UNCHANGED <<poolSize, nextSid>>

\* _cleanup_all run for a request thread; the closes raise for any of the
\* entries
PoolCleanupAll(t) ==
    /\ \E fails \in SUBSET SidsOf(pool) : CleanupAll(t, fails)
    /\ UNCHANGED notPool

\* ------------------------------------------------------------------------
\* browser.py : the background loop and the shared browser
\* ------------------------------------------------------------------------
Submitters == {"s1", "s2"}
Tasks == {"a1", "a2"}
NoLoop == 0
NoBrowser == 0
NoTask == "notask"

loopVars == <<bloop, loopsCreated, threadsStarted, block>>
callerVars == <<spc, sloop, stask, sret>>
taskVars == <<tpc, tkind, tloop, tbrowser>>
engineVars == <<browser, pw, nextB, connected, closedB>>

\* a loop is made for every call
NeedsLoopAlways(l) == TRUE

\* `_loop is None or _loop.is_closed()`; nothing in the package closes the
\* loop
NeedsLoop(l) == l = NoLoop

\* `_browser is None or not _browser.is_connected()`
NeedsLaunch(b, conn) == b = NoBrowser \/ b \notin conn

BrowserInit ==
    /\ bloop = NoLoop
    /\ loopsCreated = 0
    /\ threadsStarted = 0
    /\ block = None
    /\ spc = [t \in Submitters |-> "idle"]
    /\ sloop = [t \in Submitters |-> NoLoop]
    /\ stask = [t \in Submitters |-> NoTask]
    /\ sret = [t \in Submitters |-> "none"]
    /\ tpc = [a \in Tasks |-> "none"]
    /\ tkind = [a \in Tasks |-> "none"]
    /\ tloop = [a \in Tasks |-> NoLoop]
    /\ tbrowser = [a \in Tasks |-> NoBrowser]
    /\ browser = NoBrowser
    /\ pw = NoBrowser
    /\ nextB = 1
    /\ connected = {}
    /\ closedB = {}

\* a thread calls run_in_browser_loop(coro) and reaches `with _lock` of
\* _ensure_loop
RunCall(t) ==
    /\ spc[t] = "idle"
    /\ spc' = [spc EXCEPT ![t] = "lock"]
    /\ sret' = [sret EXCEPT ![t] = "none"]
    /\ UNCHANGED <<sloop, stask>>
    /\ UNCHANGED <<loopVars, taskVars, engineVars>>
    /\ UNCHANGED notBrowser

\* _ensure_loop: `with _lock:` is entered
EnsureAcquire(t) ==
    /\ spc[t] = "lock"
    /\ block = None
    /\ block' = t
    /\ spc' = [spc EXCEPT ![t] = "inlock"]
    /\ UNCHANGED <<bloop, loopsCreated, threadsStarted, sloop, stask, sret>>
    /\ UNCHANGED <<taskVars, engineVars>>
    /\ UNCHANGED notBrowser

\* _ensure_loop: the test of line 46, under the lock; when there is a loop
\* the lock is released
EnsureCheck(t) ==
    /\ spc[t] = "inlock"
    /\ IF NeedsLoop(bloop)
       THEN /\ spc' = [spc EXCEPT ![t] = "create"]
            /\ UNCHANGED block
       ELSE /\ spc' = [spc EXCEPT ![t] = "ret"]
            /\ block' = None
    /\ UNCHANGED <<bloop, loopsCreated, threadsStarted, sloop, stask, sret>>
    /\ UNCHANGED <<taskVars, engineVars>>
    /\ UNCHANGED notBrowser

\* _ensure_loop: the loop is made, its thread started and the lock released
EnsureCreate(t) ==
    /\ spc[t] = "create"
    /\ loopsCreated < MaxLoops
    /\ bloop' = loopsCreated + 1
    /\ loopsCreated' = loopsCreated + 1
    /\ threadsStarted' = threadsStarted + 1
    /\ block' = None
    /\ spc' = [spc EXCEPT ![t] = "ret"]
    /\ UNCHANGED <<sloop, stask, sret>>
    /\ UNCHANGED <<taskVars, engineVars>>
    /\ UNCHANGED notBrowser

\* _ensure_loop: `return _loop`, read after the lock is released
EnsureReturn(t) ==
    /\ spc[t] = "ret"
    /\ sloop' = [sloop EXCEPT ![t] = bloop]
    /\ spc' = [spc EXCEPT ![t] = "submit"]
    /\ UNCHANGED <<stask, sret>>
    /\ UNCHANGED <<loopVars, taskVars, engineVars>>
    /\ UNCHANGED notBrowser

\* run_in_browser_loop: asyncio.run_coroutine_threadsafe(coro, loop); the
\* coroutine is one that starts with `await _get_browser()` ("use") or it
\* is cleanup_browser() ("cleanup")
Submit(t, a, k) ==
    /\ spc[t] = "submit"
    /\ tpc[a] = "none"
    /\ tpc' = [tpc EXCEPT ![a] = "start"]
    /\ tkind' = [tkind EXCEPT ![a] = k]
    /\ tloop' = [tloop EXCEPT ![a] = sloop[t]]
    /\ stask' = [stask EXCEPT ![t] = a]
    /\ spc' = [spc EXCEPT ![t] = "result"]
    /\ UNCHANGED <<sloop, sret, tbrowser>>
    /\ UNCHANGED <<loopVars, engineVars>>
    /\ UNCHANGED notBrowser

\* the task is over and nothing refers to it any more
Reaped(f, a, none) == [f EXCEPT ![a] = none]

\* run_in_browser_loop: future.result(timeout=...) returns the task's
\* result or raises its exception
ResultDone(t) ==
    /\ spc[t] = "result"
    /\ tpc[stask[t]] \in {"done", "failed"}
    /\ sret' = [sret EXCEPT ![t] =
                   IF tpc[stask[t]] = "done" THEN "returned" ELSE "raised"]
    /\ spc' = [spc EXCEPT ![t] = "idle"]
    /\ sloop' = [sloop EXCEPT ![t] = NoLoop]
    /\ stask' = [stask EXCEPT ![t] = NoTask]
    /\ tpc' = Reaped(tpc, stask[t], "none")
    /\ tkind' = Reaped(tkind, stask[t], "none")
    /\ tloop' = Reaped(tloop, stask[t], NoLoop)
    /\ tbrowser' = Reaped(tbrowser, stask[t], NoBrowser)
    /\ UNCHANGED <<loopVars, engineVars>>
    /\ UNCHANGED notBrowser

\* the timeout cancels the task
AbandonedCancelled(pcs, a) == [pcs EXCEPT ![a] = "none"]

\* the future is dropped when TimeoutError leaves run_in_browser_loop;
\* nothing calls future.cancel() and the task stays where it is
Abandoned(pcs, a) == pcs

\* run_in_browser_loop: future.result(timeout=config.HARD_TIMEOUT_SECONDS)
\* raises TimeoutError; the task is not cancelled
ResultTimeout(t) ==
    /\ spc[t] = "result"
    /\ tpc[stask[t]] \notin {"done", "failed"}
    /\ sret' = [sret EXCEPT ![t] = "timeout"]
    /\ spc' = [spc EXCEPT ![t] = "idle"]
    /\ sloop' = [sloop EXCEPT ![t] = NoLoop]
    /\ stask' = [stask EXCEPT ![t] = NoTask]
    /\ tpc' = Abandoned(tpc, stask[t])
    /\ UNCHANGED <<tkind, tloop, tbrowser>>
    /\ UNCHANGED <<loopVars, engineVars>>
    /\ UNCHANGED notBrowser

\* a task whose caller gave up is over
TaskReap(a) ==
    /\ tpc[a] \in {"done", "failed"}
    /\ \A t \in Submitters : stask[t] # a
    /\ tpc' = Reaped(tpc, a, "none")
    /\ tkind' = Reaped(tkind, a, "none")
    /\ tloop' = Reaped(tloop, a, NoLoop)
    /\ tbrowser' = Reaped(tbrowser, a, NoBrowser)
    /\ UNCHANGED <<loopVars, callerVars, engineVars>>
    /\ UNCHANGED notBrowser

\* _get_browser up to its first await: the test of line 76
GbCheck(a) ==
    /\ tpc[a] = "start"
    /\ tkind[a] = "use"
    /\ IF NeedsLaunch(browser, connected)
       THEN /\ tpc' = [tpc EXCEPT ![a] = "starting"]
            /\ UNCHANGED tbrowser
       ELSE /\ tpc' = [tpc EXCEPT ![a] = "using"]
            /\ tbrowser' = [tbrowser EXCEPT ![a] = browser]
    /\ UNCHANGED <<tkind, tloop>>
    /\ UNCHANGED <<loopVars, callerVars, engineVars>>
    /\ UNCHANGED notBrowser

\* _get_browser: `_pw = await async_playwright().start()` is over and the
\* await of `_pw.chromium.launch(...)` begins, or start() raised
GbStarted(a, ok) ==
    /\ tpc[a] = "starting"
    /\ IF ok
       THEN /\ nextB <= MaxLaunches
            /\ pw' = nextB
            /\ nextB' = nextB + 1
            /\ tbrowser' = [tbrowser EXCEPT ![a] = nextB]
            /\ tpc' = [tpc EXCEPT ![a] = "launching"]
       ELSE /\ tpc' = [tpc EXCEPT ![a] = "failed"]
            /\ UNCHANGED <<pw, nextB, tbrowser>>
    /\ UNCHANGED <<tkind, tloop, browser, connected, closedB>>
    /\ UNCHANGED <<loopVars, callerVars>>
    /\ UNCHANGED notBrowser

\* _get_browser: `_browser = await _pw.chromium.launch(...)` is over and
\* `return _browser` follows, or launch() raised
GbLaunched(a, ok) ==
    /\ tpc[a] = "launching"
    /\ IF ok
       THEN /\ browser' = tbrowser[a]
            /\ connected' = connected \cup {tbrowser[a]}
            /\ tpc' = [tpc EXCEPT ![a] = "using"]
            /\ UNCHANGED tbrowser
       ELSE /\ tpc' = [tpc EXCEPT ![a] = "failed"]
            /\ tbrowser' = [tbrowser EXCEPT ![a] = NoBrowser]
            /\ UNCHANGED <<browser, connected>>
    /\ UNCHANGED <<tkind, tloop, pw, nextB, closedB>>
    /\ UNCHANGED <<loopVars, callerVars>>
    /\ UNCHANGED notBrowser

\* the coroutine works with `browser` (new_context, new_page, ...) and ends
TaskUse(a) ==
    /\ tpc[a] = "using"
    /\ tpc' = [tpc EXCEPT ![a] =
                  IF tbrowser[a] \in connected THEN "done" ELSE "failed"]
    /\ UNCHANGED <<tkind, tloop, tbrowser>>
    /\ UNCHANGED <<loopVars, callerVars, engineVars>>
    /\ UNCHANGED notBrowser

\* where cleanup_browser goes on after the `if _browser:` block
AfterBrowser == IF pw # NoBrowser THEN "clearPw" ELSE "done"

\* cleanup_browser: `if _browser:` holds, `await _browser.close()` begins
CbClose(a) ==
    /\ tpc[a] = "start"
    /\ tkind[a] = "cleanup"
    /\ browser # NoBrowser
    /\ closedB' = closedB \cup {browser}
    /\ connected' = connected \ {browser}
    /\ tpc' = [tpc EXCEPT ![a] = "clearB"]
    /\ UNCHANGED <<tkind, tloop, tbrowser, browser, pw, nextB>>
    /\ UNCHANGED <<loopVars, callerVars>>
    /\ UNCHANGED notBrowser

\* cleanup_browser: `if _browser:` fails; `if _pw:` and the await of
\* `_pw.stop()` follow
CbSkip(a) ==
    /\ tpc[a] = "start"
    /\ tkind[a] = "cleanup"
    /\ browser = NoBrowser
    /\ tpc' = [tpc EXCEPT ![a] = AfterBrowser]
    /\ UNCHANGED <<tkind, tloop, tbrowser>>
    /\ UNCHANGED <<loopVars, callerVars, engineVars>>
    /\ UNCHANGED notBrowser

\* cleanup_browser: close() is over, `_browser = None`; `if _pw:` and the
\* await of `_pw.stop()` follow
CbClearB(a) ==
    /\ tpc[a] = "clearB"
    /\ browser' = NoBrowser
    /\ tpc' = [tpc EXCEPT ![a] = AfterBrowser]
    /\ UNCHANGED <<tkind, tloop, tbrowser, pw, nextB, connected, closedB>>
    /\ UNCHANGED <<loopVars, callerVars>>
    /\ UNCHANGED notBrowser

\* cleanup_browser: stop() is over, `_pw = None`
CbClearPw(a) ==
    /\ tpc[a] = "clearPw"
    /\ pw' = NoBrowser
    /\ tpc' = [tpc EXCEPT ![a] = "done"]
    /\ UNCHANGED <<tkind, tloop, tbrowser, browser, nextB, connected, closedB>>
    /\ UNCHANGED <<loopVars, callerVars>>
    /\ UNCHANGED notBrowser

\* a browser crashes or loses its connection
Disconnect(b) ==
    /\ b \in connected
    /\ connected' = connected \ {b}
    /\ UNCHANGED <<browser, pw, nextB, closedB>>
    /\ UNCHANGED <<loopVars, callerVars, taskVars>>
    /\ UNCHANGED notBrowser

\* ------------------------------------------------------------------------
\* tools/_helpers.py : fetch_page_or_error, one tool request of thread "c1"
\* on a valid repository url
\* ------------------------------------------------------------------------
NoResponse == [code |-> "none", retry_after_seconds |-> 0, calls_remaining |-> 0]

\* a returned WikiPage
PageResponse == [code |-> "page", retry_after_seconds |-> 0, calls_remaining |-> 0]

\* ToolResponse.error(code, ...) without meta
ToolError(code) == [code |-> code, retry_after_seconds |-> 0, calls_remaining |-> 0]

\* ToolResponse.error(ErrorCode.RATE_LIMITED, ..., meta=ResponseMeta(
\* retry_after_seconds=round(retry_after, 1), calls_remaining=0)); times
\* are whole numbers here, which round(., 1) leaves as they are
RateLimited(retry_after) ==
    [code |-> "RATE_LIMITED", retry_after_seconds |-> retry_after,
     calls_remaining |-> 0]

AdmittedAlways(ok) == ok # "none"

\* `if not wait_for_rate_limit(validated.repo_url)` is not taken
Admitted(ok) == ok = "true"

\* what fetch_page_or_error makes of the outcome of fetch_page_with_fallback
Response(r) ==
    IF r.kind = "raise"
    THEN IF r.exc = "TimeoutError" THEN ToolError("TIMEOUT")
         ELSE ToolError("INTERNAL")
    ELSE IF r.fr.page = NoPage THEN ToolError("NOT_INDEXED")
    ELSE IF r.fr.page.sections = <<>> /\ r.fr.page.raw_text = <<>>
         THEN ToolError("NO_CONTENT")
    ELSE IF IsNotIndexed(r.fr.page) THEN ToolError("NOT_INDEXED")
    ELSE PageResponse

GateInit ==
    /\ gpc = "idle"
    /\ gresp = NoResponse

\* fetch_page_or_error is called and, the url being valid, calls
\* wait_for_rate_limit; the frame of the request before it is gone
GateRequest(k) ==
    /\ gpc \in {"idle", "done"}
    /\ RlEnter("c1", k)
    /\ gpc' = "limit"
    /\ gresp' = NoResponse
    /\ fpc' = "idle"
    /\ result' = NoResult
    /\ twNotIndexed' = FALSE
    /\ fret' = NotReturned
    /\ calls' = <<>>
    /\ srcOut' = NoCalls
    /\ UNCHANGED <<cfg, autoIndex>>
    /\ UNCHANGED <<dedupVars, poolVars, browserVars, shutVars,
                   moreVars>>

\* wait_for_rate_limit returned False: time_until_next_slot is read and the
\* RATE_LIMITED response returned
GateDenied ==
    /\ gpc = "limit"
    /\ rpc["c1"] = "idle"
    /\ ~Admitted(rok["c1"])
    /\ gresp' = RateLimited(TimeUntilNextSlot(windows[WindowOf(rkey["c1"])],
                                              clock, rcfg))
    /\ gpc' = "done"
    /\ UNCHANGED <<dedupVars, fallbackVars, rateVars, poolVars, browserVars,
                   shutVars, moreVars>>

\* wait_for_rate_limit returned True: fetch_page_with_fallback is called
GateFetch ==
    /\ gpc = "limit"
    /\ rpc["c1"] = "idle"
    /\ Admitted(rok["c1"])
    /\ FbEnter
    /\ gpc' = "fetch"
    /\ UNCHANGED gresp
    /\ UNCHANGED <<dedupVars, rateVars, poolVars, browserVars, shutVars,
                   moreVars>>

\* fetch_page_with_fallback came back, with a result or an exception
GateReturn ==
    /\ gpc = "fetch"
    /\ fpc = "done"
    /\ gresp' = Response(fret)
    /\ gpc' = "done"
    /\ UNCHANGED <<dedupVars, fallbackVars, rateVars, poolVars, browserVars,
                   shutVars, moreVars>>

\* ------------------------------------------------------------------------
\* server.py : _shutdown and the finally block of main, with the pool
\* coroutine "p1" of a request that was being served and "p2" for the
\* _cleanup_all of the shutdown
\* ------------------------------------------------------------------------
ShutInit ==
    /\ shpc = "run"
    /\ shLeft = {}
    /\ shErr = {}
    /\ shStopped = {}
    /\ shTimedOut = FALSE

\* the process has not exited: the daemon thread of the loop runs tasks
Alive == shpc # "exited"

\* a request of the serving process schedules _get_or_create or _release
ShRequest(fn, u, b) ==
    /\ shpc = "run"
    /\ PoolEnter("p1", fn, u, b)
    /\ UNCHANGED <<dedupVars, fallbackVars, rateVars, browserVars, gateVars,
                   shutVars, moreVars>>

\* a task of the loop runs _get_browser to its end: driver started and
\* browser launched
ShLaunch ==
    /\ Alive
    /\ NeedsLaunch(browser, connected)
    /\ nextB <= MaxLaunches
    /\ browser' = nextB
    /\ pw' = nextB
    /\ connected' = connected \cup {nextB}
    /\ nextB' = nextB + 1
    /\ UNCHANGED <<closedB, tpc, tkind, tloop, tbrowser>>
    /\ UNCHANGED <<loopVars, callerVars>>
    /\ UNCHANGED notBrowser

\* _shutdown or the finally block of main begins: cleanup_pool() schedules
\* _cleanup_all and waits for its result
ShCleanupPool ==
    /\ shpc = "run"
    /\ PoolEnter("p2", "_cleanup_all", "u1", FALSE)
    /\ shpc' = "pool"
    /\ UNCHANGED <<shLeft, shErr, shStopped, shTimedOut>>
    /\ UNCHANGED <<dedupVars, fallbackVars, rateVars, browserVars, gateVars,
                   moreVars>>

\* _cleanup_all of the shutdown runs under the pool lock; the closes of the
\* entries in `fails` raise
ShCleanupAll(fails) ==
    /\ Alive
    /\ CleanupAll("p2", fails)
    /\ shErr' = shErr \cup {<<"session", x>> : x \in fails}
    /\ UNCHANGED <<shpc, shLeft, shStopped, shTimedOut>>
    /\ UNCHANGED <<dedupVars, fallbackVars, rateVars, browserVars, gateVars,
                   moreVars>>

\* cleanup_pool returns: the result of _cleanup_all arrived, or an exception
\* that `except Exception` of cleanup_pool keeps
ShPoolDone ==
    /\ shpc = "pool"
    /\ ppc["p2"] = "idle"
    /\ shpc' = "engine"
    /\ UNCHANGED <<shLeft, shErr, shStopped, shTimedOut>>
    /\ UNCHANGED <<dedupVars, fallbackVars, rateVars, poolVars, browserVars,
                   gateVars, moreVars>>

\* future.result(timeout=HARD_TIMEOUT_SECONDS) of cleanup_pool times out
\* while _cleanup_all has not finished; `except Exception` keeps it
ShPoolTimeout ==
    /\ shpc = "pool"
    /\ ppc["p2"] # "idle"
    /\ shpc' = "engine"
    /\ shTimedOut' = TRUE
    /\ UNCHANGED <<shLeft, shErr, shStopped>>
    /\ UNCHANGED <<dedupVars, fallbackVars, rateVars, poolVars, browserVars,
                   gateVars, moreVars>>

\* run_in_browser_loop(cleanup_browser()): close() of the browser and
\* stop() of the driver, each of which may raise; an exception that leaves
\* cleanup_browser is none of those _shutdown catches
ShCleanupBrowser(okB, okP) ==
    /\ shpc = "engine"
    /\ okB \/ browser # NoBrowser
    /\ okP \/ pw # NoBrowser
    /\ shLeft' = IF browser # NoBrowser THEN SidsOf(pool) ELSE {}
    /\ closedB' = IF browser # NoBrowser THEN closedB \cup {browser} ELSE closedB
    /\ connected' = IF okB THEN connected \ {browser} ELSE connected
    /\ IF Suppressed(~okB)
       THEN /\ browser' = NoBrowser
            /\ shStopped' = IF pw # NoBrowser THEN shStopped \cup {pw}
                            ELSE shStopped
            /\ shErr' = shErr \cup (IF okB THEN {} ELSE {<<"browser", browser>>})
                              \cup (IF okP THEN {} ELSE {<<"driver", pw>>})
            /\ IF Suppressed(~okP)
               THEN pw' = NoBrowser /\ shpc' = "stopped"
               ELSE pw' = pw /\ shpc' = "crashed"
       ELSE /\ shErr' = shErr \cup {<<"browser", browser>>}
            /\ shpc' = "crashed"
            /\ UNCHANGED <<browser, pw, shStopped>>
    /\ UNCHANGED <<nextB, tpc, tkind, tloop, tbrowser, shTimedOut>>
    /\ UNCHANGED <<loopVars, callerVars>>
    /\ UNCHANGED <<dedupVars, fallbackVars, rateVars, poolVars, gateVars,
                   moreVars>>

\* sys.exit(0), or main returns: the process is over and with it the
\* daemon thread of the loop
ShExit ==
    /\ shpc = "stopped"
    /\ shpc' = "exited"
    /\ UNCHANGED <<shLeft, shErr, shStopped, shTimedOut>>
    /\ UNCHANGED <<dedupVars, fallbackVars, rateVars, poolVars, browserVars,
                   gateVars, moreVars>>

\* ------------------------------------------------------------------------
\* fallback.py : fetch_page_with_fallback called by two threads for the
\* same url, with the fallback and both secondary sources enabled;
\* dedup_fetch stands between the callers and source A only
\* ------------------------------------------------------------------------
FbCallers == {"f1", "f2"}

Operations == {"A", "B", "C", "R"}

\* the rest of the state, which the callers of this section leave alone
notCollapse ==
    <<dedupVars, fallbackVars, rateVars, poolVars, browserVars, gateVars,
      shutVars, lockVars, useVars>>

CollapseInit ==
    /\ kpc = [t \in FbCallers |-> "idle"]
    /\ kowner = None
    /\ kres = [t \in FbCallers |-> NotReturned]
    /\ ktw = [t \in FbCallers |-> FALSE]
    /\ kcount = [x \in Operations |-> 0]
    /\ koverlap = FALSE

\* the call is made; _try_tinkywiki reaches dedup_fetch(repo_url, ...)
ClCall(t) ==
    /\ kpc[t] = "idle"
    /\ kpc' = [kpc EXCEPT ![t] = "A"]
    /\ koverlap' = (koverlap \/ \E u \in FbCallers : kpc[u] \notin {"idle", "done"})
    /\ UNCHANGED <<kowner, kres, ktw, kcount>>
    /\ UNCHANGED notCollapse

\* dedup_fetch: no entry for the url is in flight, the caller registers
\* one and calls fetch_wiki_page
ClOwn(t) ==
    /\ kpc[t] = "A"
    /\ kowner = None
    /\ kowner' = t
    /\ kpc' = [kpc EXCEPT ![t] = "fetchA"]
    /\ kcount' = [kcount EXCEPT !["A"] = @ + 1]
    /\ UNCHANGED <<kres, ktw, koverlap>>
    /\ UNCHANGED notCollapse

\* dedup_fetch: an entry for the url is in flight, the caller waits on it
ClJoin(t) ==
    /\ kpc[t] = "A"
    /\ kowner # None
    /\ kpc' = [kpc EXCEPT ![t] = "waitA"]
    /\ UNCHANGED <<kowner, kres, ktw, kcount, koverlap>>
    /\ UNCHANGED notCollapse

\* what Layer 1 makes of the outcome o of dedup_fetch for caller u: the
\* early return, or tinkywiki_not_indexed and the way on to the indexing
\* request
AfterLayer1(u, o) ==
    LET r == TryTinkywiki(o) IN
    IF Layer1Accepts(r.fr)
    THEN [pc |-> "done", res |-> r, tw |-> FALSE]
    ELSE [pc |-> "index", res |-> NotReturned,
          tw |-> (r.fr.page = NoPage \/ IsNotIndexedError(r.fr.page))]

\* fetch_wiki_page of the owner ends with o; the entry is popped and the
\* owner and the waiters on the entry get o from dedup_fetch
ClFetched(t, o) ==
    /\ kpc[t] = "fetchA"
    /\ kowner' = None
    /\ LET served == {u \in FbCallers : u = t \/ kpc[u] = "waitA"} IN
       /\ kpc' = [u \in FbCallers |->
                    IF u \in served THEN AfterLayer1(u, o).pc ELSE kpc[u]]
       /\ kres' = [u \in FbCallers |->
                    IF u \in served THEN AfterLayer1(u, o).res ELSE kres[u]]
       /\ ktw' = [u \in FbCallers |->
                    IF u \in served THEN AfterLayer1(u, o).tw ELSE ktw[u]]
    /\ UNCHANGED <<kcount, koverlap>>
    /\ UNCHANGED notCollapse

\* `if tinkywiki_not_indexed: _request_tinkywiki_indexing_async(repo_url)`
ClIndex(t) ==
    /\ kpc[t] = "index"
    /\ kcount' = IF RequestsIndexing(ktw[t])
                 THEN [kcount EXCEPT !["R"] = @ + 1]
                 ELSE kcount
    /\ kpc' = [kpc EXCEPT ![t] = "B"]
    /\ UNCHANGED <<kowner, kres, ktw, koverlap>>
    /\ UNCHANGED notCollapse

\* Layer 2: _try_deepwiki, the caller's own fetch_deepwiki_page
ClLayer2(t, o) ==
    /\ kpc[t] = "B"
    /\ DeepwikiEnabled(cfg)
    /\ kcount' = [kcount EXCEPT !["B"] = @ + 1]
    /\ LET res == [TryDeepwiki(o).fr EXCEPT !.tinkywiki_not_indexed = ktw[t]] IN
       IF res.page # NoPage
       THEN /\ kres' = [kres EXCEPT ![t] = Ok(res)]
            /\ kpc' = [kpc EXCEPT ![t] = "done"]
       ELSE /\ kpc' = [kpc EXCEPT ![t] = "C"]
            /\ UNCHANGED kres
    /\ UNCHANGED <<kowner, ktw, koverlap>>
    /\ UNCHANGED notCollapse

\* Layer 3: _try_github_api, the caller's own fetch_github_wiki_page, and
\* the result of all layers having failed
ClLayer3(t, o) ==
    /\ kpc[t] = "C"
    /\ GithubApiEnabled(cfg)
    /\ kcount' = [kcount EXCEPT !["C"] = @ + 1]
    /\ LET res == [TryGithubApi(o).fr EXCEPT !.tinkywiki_not_indexed = ktw[t],
                                           !.deepwiki_not_indexed = TRUE] IN
       kres' = [kres EXCEPT ![t] = IF res.page # NoPage THEN Ok(res)
                                   ELSE Ok(AllFailedResult(ktw[t]))]
    /\ kpc' = [kpc EXCEPT ![t] = "done"]
    /\ UNCHANGED <<kowner, ktw, koverlap>>
    /\ UNCHANGED notCollapse

CollapseNext ==
    \/ \E t \in FbCallers : ClCall(t)
    \/ \E t \in FbCallers : ClOwn(t)
    \/ \E t \in FbCallers : ClJoin(t)
    \/ \E t \in FbCallers, o \in OutcomesA : ClFetched(t, o)
    \/ \E t \in FbCallers : ClIndex(t)
    \/ \E t \in FbCallers, o \in OutcomesB : ClLayer2(t, o)
    \/ \E t \in FbCallers, o \in OutcomesC : ClLayer3(t, o)

\* ------------------------------------------------------------------------
\* The lock sections of rate_limit.py, dedup.py, browser.py and
\* session_pool.py on the way of a request: wait_for_rate_limit, then for a
\* page dedup_fetch around fetch_wiki_page, for a search _search_impl; both
\* go to the loop through run_in_browser_loop
\* ------------------------------------------------------------------------
LockThreads == {"r1", "r2"}

\* the coroutine a thread has submitted runs as a task of its own
TaskOf(t) == IF t = "r1" THEN "task1" ELSE "task2"

Holders == LockThreads \cup {TaskOf(t) : t \in LockThreads}

Locks == {"rate", "dedup", "bridge", "pool"}

notLocks ==
    <<dedupVars, fallbackVars, rateVars, poolVars, browserVars, gateVars,
      shutVars, collapseVars, useVars>>

\* `with _lock:` / `async with _lock:` that the thread or task is about to
\* enter at each position
LockAt(pc) ==
    CASE pc \in {"check", "slot", "recheck"} -> "rate"
      [] pc \in {"register", "pop"} -> "dedup"
      [] pc = "ensure" -> "bridge"
      [] pc \in {"get", "release"} -> "pool"

LockPoints == {"check", "slot", "recheck", "register", "pop", "ensure"}

TaskLockPoints == {"get", "release"}

\* the position inside the lock section entered at pc
Inside(pc) == pc \o "In"

LocksInit ==
    /\ held = [l \in Locks |-> None]
    /\ lpc = [t \in LockThreads |-> "idle"]
    /\ lkind = [t \in LockThreads |-> "page"]
    /\ lowner = None
    /\ ltask = [t \in LockThreads |-> "none"]

\* a tool request begins: wait_for_rate_limit, whose first statement that
\* locks is check_rate_limit
LkBegin(t, kind) ==
    /\ lpc[t] = "idle"
    /\ lpc' = [lpc EXCEPT ![t] = "check"]
    /\ lkind' = [lkind EXCEPT ![t] = kind]
    /\ ltask' = [ltask EXCEPT ![t] = "none"]
    /\ UNCHANGED <<held, lowner>>
    /\ UNCHANGED notLocks

\* a thread enters a `with _lock:`
LkEnter(t) ==
    /\ lpc[t] \in LockPoints
    /\ Free(held[LockAt(lpc[t])])
    /\ held' = [held EXCEPT ![LockAt(lpc[t])] = t]
    /\ lpc' = [lpc EXCEPT ![t] = Inside(lpc[t])]
    /\ UNCHANGED <<lkind, lowner, ltask>>
    /\ UNCHANGED notLocks

\* where an admitted request goes: dedup_fetch for a page, the submission
\* of _search_impl for a search
Admission(kind) == IF kind = "page" THEN "register" ELSE "ensure"

\* check_rate_limit leaves its lock with True or False; False with
\* auto-wait leads to time_until_next_slot
LkCheckLeave(t, res) ==
    /\ lpc[t] = Inside("check")
    /\ held' = [held EXCEPT !["rate"] = Unlocked(t)]
    /\ lpc' = [lpc EXCEPT ![t] = CASE res = "admit" -> Admission(lkind[t])
                                   [] res = "deny" -> "idle"
                                   [] res = "wait" -> "slot"]
    /\ UNCHANGED <<lkind, lowner, ltask>>
    /\ UNCHANGED notLocks

\* time_until_next_slot leaves its lock; wait_for_rate_limit re-checks,
\* rejects or sleeps
LkSlotLeave(t, res) ==
    /\ lpc[t] = Inside("slot")
    /\ held' = [held EXCEPT !["rate"] = Unlocked(t)]
    /\ lpc' = [lpc EXCEPT ![t] = CASE res = "recheck" -> "recheck"
                                   [] res = "deny" -> "idle"
                                   [] res = "sleep" -> "sleep"]
    /\ UNCHANGED <<lkind, lowner, ltask>>
    /\ UNCHANGED notLocks

\* time.sleep(wait + 0.05) is over
LkWake(t) ==
    /\ lpc[t] = "sleep"
    /\ lpc' = [lpc EXCEPT ![t] = "recheck"]
    /\ UNCHANGED <<held, lkind, lowner, ltask>>
    /\ UNCHANGED notLocks

\* the second check_rate_limit leaves its lock with True or False
LkRecheckLeave(t, ok) ==
    /\ lpc[t] = Inside("recheck")
    /\ held' = [held EXCEPT !["rate"] = Unlocked(t)]
    /\ lpc' = [lpc EXCEPT ![t] = IF ok THEN Admission(lkind[t]) ELSE "idle"]
    /\ UNCHANGED <<lkind, lowner, ltask>>
    /\ UNCHANGED notLocks

\* dedup_fetch leaves its first lock section as the owner, whose fetch_fn
\* goes to run_in_browser_loop, or as a waiter
LkRegisterLeave(t) ==
    /\ lpc[t] = Inside("register")
    /\ held' = [held EXCEPT !["dedup"] = Unlocked(t)]
    /\ IF lowner = None
       THEN lowner' = t /\ lpc' = [lpc EXCEPT ![t] = "ensure"]
       ELSE lowner' = lowner /\ lpc' = [lpc EXCEPT ![t] = "wait"]
    /\ UNCHANGED <<lkind, ltask>>
    /\ UNCHANGED notLocks

\* _ensure_loop leaves its lock; the coroutine is submitted and the thread
\* waits in future.result
LkEnsureLeave(t) ==
    /\ lpc[t] = Inside("ensure")
    /\ held' = [held EXCEPT !["bridge"] = Unlocked(t)]
    /\ lpc' = [lpc EXCEPT ![t] = "result"]
    /\ ltask' = [ltask EXCEPT ![t] = IF lkind[t] = "page" THEN "render" ELSE "get"]
    /\ UNCHANGED <<lkind, lowner>>
    /\ UNCHANGED notLocks

\* the task of a search enters `async with _lock` of _get_or_create or of
\* _release
LkTaskEnter(t) ==
    /\ ltask[t] \in TaskLockPoints
    /\ Free(held[LockAt(ltask[t])])
    /\ held' = [held EXCEPT ![LockAt(ltask[t])] = TaskOf(t)]
    /\ ltask' = [ltask EXCEPT ![t] = Inside(ltask[t])]
    /\ UNCHANGED <<lpc, lkind, lowner>>
    /\ UNCHANGED notLocks

\* _get_or_create leaves its lock after the awaits of eviction and
\* creation; the chat follows
LkGetLeave(t) ==
    /\ ltask[t] = Inside("get")
    /\ held' = [held EXCEPT !["pool"] = Unlocked(TaskOf(t))]
    /\ ltask' = [ltask EXCEPT ![t] = "chat"]
    /\ UNCHANGED <<lpc, lkind, lowner>>
    /\ UNCHANGED notLocks

\* the chat is over: `finally: await _release(...)`
LkChatEnd(t) ==
    /\ ltask[t] = "chat"
    /\ ltask' = [ltask EXCEPT ![t] = "release"]
    /\ UNCHANGED <<held, lpc, lkind, lowner>>
    /\ UNCHANGED notLocks

\* _release leaves its lock and _search_impl returns
LkReleaseLeave(t) ==
    /\ ltask[t] = Inside("release")
    /\ held' = [held EXCEPT !["pool"] = Unlocked(TaskOf(t))]
    /\ ltask' = [ltask EXCEPT ![t] = "done"]
    /\ UNCHANGED <<lpc, lkind, lowner>>
    /\ UNCHANGED notLocks

\* _render_page_async, which takes no lock, returns
LkRenderEnd(t) ==
    /\ ltask[t] = "render"
    /\ ltask' = [ltask EXCEPT ![t] = "done"]
    /\ UNCHANGED <<held, lpc, lkind, lowner>>
    /\ UNCHANGED notLocks

\* future.result returns: the search is answered; the owner of a page
\* fetch goes on to `finally: entry.event.set()` and to the lock section
\* of the pop
LkResult(t) ==
    /\ lpc[t] = "result"
    /\ ltask[t] = "done"
    /\ lpc' = [lpc EXCEPT ![t] = IF lkind[t] = "page" THEN "pop" ELSE "idle"]
    /\ UNCHANGED <<held, lkind, lowner, ltask>>
    /\ UNCHANGED notLocks

\* entry.event.wait(timeout=120) of a waiter returns, the event being set
\* or the time being up, and dedup_fetch returns or raises
LkWaitEnd(t) ==
    /\ lpc[t] = "wait"
    /\ lpc' = [lpc EXCEPT ![t] = "idle"]
    /\ UNCHANGED <<held, lkind, lowner, ltask>>
    /\ UNCHANGED notLocks

\* `with _lock: _inflight.pop(key, None)` is left and dedup_fetch returns
LkPopLeave(t) ==
    /\ lpc[t] = Inside("pop")
    /\ held' = [held EXCEPT !["dedup"] = Unlocked(t)]
    /\ lowner' = None
    /\ lpc' = [lpc EXCEPT ![t] = "idle"]
    /\ UNCHANGED <<lkind, ltask>>
    /\ UNCHANGED notLocks

LocksNext ==
    \/ \E t \in LockThreads, kind \in {"page", "search"} : LkBegin(t, kind)
    \/ \E t \in LockThreads : LkEnter(t)
    \/ \E t \in LockThreads, res \in {"admit", "deny", "wait"} : LkCheckLeave(t, res)
    \/ \E t \in LockThreads, res \in {"recheck", "deny", "sleep"} : LkSlotLeave(t, res)
    \/ \E t \in LockThreads : LkWake(t)
    \/ \E t \in LockThreads, ok \in BOOLEAN : LkRecheckLeave(t, ok)
    \/ \E t \in LockThreads : LkRegisterLeave(t)
    \/ \E t \in LockThreads : LkEnsureLeave(t)
    \/ \E t \in LockThreads : LkTaskEnter(t)
    \/ \E t \in LockThreads : LkGetLeave(t)
    \/ \E t \in LockThreads : LkChatEnd(t)
    \/ \E t \in LockThreads : LkReleaseLeave(t)
    \/ \E t \in LockThreads : LkRenderEnd(t)
    \/ \E t \in LockThreads : LkResult(t)
    \/ \E t \in LockThreads : LkWaitEnd(t)
    \/ \E t \in LockThreads : LkPopLeave(t)

DedupNext ==
    \/ \E t \in Threads, k \in Keys : DedupJoin(t, k)
    \/ \E t \in Threads, k \in Keys : DedupOwn(t, k)
    \/ \E t \in Threads, v \in Values : FetchReturn(t, v)
    \/ \E t \in Threads, e \in Errors : FetchRaise(t, e)
    \/ \E t \in Threads : SetEvent(t)
    \/ \E t \in Threads : PopKey(t)
    \/ \E t \in Threads : WaitWake(t)
    \/ \E t \in Threads : WaitTimeout(t)
    \/ \E t \in Threads : CheckError(t)
    \/ \E t \in Threads : ReturnResult(t)

\* dedup_fetch called by two threads for one key
LiveThreads == {"t1", "t2"}

DedupLiveNext ==
    \/ \E t \in LiveThreads : DedupJoin(t, "k1")
    \/ \E t \in LiveThreads : DedupOwn(t, "k1")
    \/ \E t \in LiveThreads, v \in Values : FetchReturn(t, v)
    \/ \E t \in LiveThreads, e \in Errors : FetchRaise(t, e)
    \/ \E t \in LiveThreads : SetEvent(t)
    \/ \E t \in LiveThreads : PopKey(t)
    \/ \E t \in LiveThreads : WaitWake(t)
    \/ \E t \in LiveThreads : WaitTimeout(t)
    \/ \E t \in LiveThreads : CheckError(t)
    \/ \E t \in LiveThreads : ReturnResult(t)

\* a thread that can go on does go on; fetch_fn of an owner comes to an end;
\* a wait on an event that is set returns, while the 120 s of a wait on an
\* event that is not set need not run out
DedupFairness ==
    \A t \in LiveThreads :
        /\ WF_vars(\E v \in Values : FetchReturn(t, v))
        /\ WF_vars(SetEvent(t))
        /\ WF_vars(PopKey(t))
        /\ WF_vars(WaitWake(t))
        /\ WF_vars(CheckError(t))
        /\ WF_vars(ReturnResult(t))

FallbackNext ==
    \/ FbCall
    \/ FbOnlyTinkywiki
    \/ FbLayer1
    \/ FbRequestIndexing
    \/ FbLayer2
    \/ FbSkipLayer2
    \/ FbLayer3
    \/ FbSkipLayer3
    \/ FbAllFailed
    \/ AutoIndexEnd

RateNext ==
    \/ Tick
    \/ \E k \in RepoKeys, n \in Ticks : RlCheckRateLimit(k, n)
    \/ \E k \in RepoKeys, n \in Ticks : RlRemaining(k, n)
    \/ \E k \in RepoKeys, n \in Ticks : RlTimeUntilNextSlot(k, n)
    \/ \E t \in Callers, k \in RepoKeys : RlCall(t, k)
    \/ \E t \in Callers : RlCheck(t)
    \/ \E t \in Callers : RlRecheck(t)
    \/ \E t \in Callers : RlSlotNow(t)
    \/ \E t \in Callers : RlSlot(t)
    \/ \E t \in Callers : RlRecheckNow(t)
    \/ \E t \in Callers : RlWake(t)

\* requests of thread "c1" for one repository, and the calls of other
\* threads that count against the same repository
GateNext ==
    \/ GateRequest(LoggedKey)
    \/ GateDenied
    \/ GateFetch
    \/ GateReturn
    \/ Tick
    \/ \E n \in Ticks : RlCheckRateLimit(LoggedKey, n)
    \/ RlCheck("c1")
    \/ RlRecheck("c1")
    \/ RlSlotNow("c1")
    \/ RlSlot("c1")
    \/ RlRecheckNow("c1")
    \/ RlWake("c1")
    \/ FbOnlyTinkywiki

\* the coroutines of the pool run as long as the process does; the tasks
\* start in the order of their submission and asyncio.Lock serves its
\* waiters in order, so that _cleanup_all does not overtake the request
ShAcquire(t) ==
    /\ Alive
    /\ t = "p2" => ppc["p1"] # "lock"
    /\ PoolAcquire(t)

ShReuse == Alive /\ PoolReuse("p1")

ShEvict == Alive /\ PoolEvict("p1")

\* a session is created only on a launched browser: _create_entry begins
\* with `browser = await _get_browser()`
ShCreate(ok) == Alive /\ (ok => browser \in connected) /\ PoolCreate("p1", ok)

ShRelease == Alive /\ PoolRelease("p1")

ShutdownNext ==
    \/ \E fn \in {"_get_or_create", "_release"}, u \in Urls, b \in BOOLEAN :
           ShRequest(fn, u, b)
    \/ ShLaunch
    \/ \E t \in Coroutines : ShAcquire(t)
    \/ ShReuse
    \/ ShEvict
    \/ \E ok \in BOOLEAN : ShCreate(ok)
    \/ ShRelease
    \/ ShCleanupPool
    \/ \E fails \in SUBSET (1..MaxSessions) : ShCleanupAll(fails)
    \/ ShPoolDone
    \/ ShPoolTimeout
    \/ \E okB \in BOOLEAN, okP \in BOOLEAN : ShCleanupBrowser(okB, okP)
    \/ ShExit

PoolNext ==
    \/ \E t \in Coroutines, u \in Urls, b \in BOOLEAN,
          fn \in {"_get_or_create", "_release", "_cleanup_all"} :
              PoolCall(t, fn, u, b)
    \/ \E t \in Coroutines : PoolAcquire(t)
    \/ \E t \in Coroutines : PoolReuse(t)
    \/ \E t \in Coroutines : PoolEvict(t)
    \/ \E t \in Coroutines, ok \in BOOLEAN : PoolCreate(t, ok)
    \/ \E t \in Coroutines : PoolRelease(t)
    \/ \E t \in Coroutines : PoolCleanupAll(t)

BrowserNext ==
    \/ \E t \in Submitters : RunCall(t)
    \/ \E t \in Submitters : EnsureAcquire(t)
    \/ \E t \in Submitters : EnsureCheck(t)
    \/ \E t \in Submitters : EnsureCreate(t)
    \/ \E t \in Submitters : EnsureReturn(t)
    \/ \E t \in Submitters, a \in Tasks, k \in {"use", "cleanup"} :
          Submit(t, a, k)
    \/ \E t \in Submitters : ResultDone(t)
    \/ \E t \in Submitters : ResultTimeout(t)
    \/ \E a \in Tasks : TaskReap(a)
    \/ \E a \in Tasks : GbCheck(a)
    \/ \E a \in Tasks, ok \in BOOLEAN : GbStarted(a, ok)
    \/ \E a \in Tasks, ok \in BOOLEAN : GbLaunched(a, ok)
    \/ \E a \in Tasks : TaskUse(a)
    \/ \E a \in Tasks : CbClose(a)
    \/ \E a \in Tasks : CbSkip(a)
    \/ \E a \in Tasks : CbClearB(a)
    \/ \E a \in Tasks : CbClearPw(a)
    \/ \E b \in 1..MaxLaunches : Disconnect(b)

\* callers of dedup_fetch in a process with the default configuration
\* the components that follow the browser bridge, as they are at import
\* ------------------------------------------------------------------------
\* tools/search.py : _search_impl tasks on the browser loop, each taking its
\* session from the pool of session_pool.py, using its page and releasing it
\* ------------------------------------------------------------------------
\* what the search tasks and the pool they use leave alone
notUse ==
    <<dedupVars, fallbackVars, rateVars, browserVars, gateVars, shutVars,
      collapseVars, lockVars>>

UseInit ==
    /\ hpc = [t \in Coroutines |-> "idle"]
    /\ hurl = [t \in Coroutines |-> "u1"]
    /\ hold = [t \in Coroutines |-> NoSid]
    /\ stolen = {}
    /\ spun = FALSE

\* the tasks other than t that are using the entry sid
UsedByOther(t, sid) == \E o \in Coroutines \ {t} : hold[o] = sid

\* run_in_browser_loop(_search_impl(inp)): the task reaches
\* `entry = await _get_or_create(target_url)`
SrGet(t, u) ==
    /\ hpc[t] = "idle"
    /\ PoolEnter(t, "_get_or_create", u, FALSE)
    /\ hpc' = [hpc EXCEPT ![t] = "get"]
    /\ hurl' = [hurl EXCEPT ![t] = u]
    /\ UNCHANGED <<hold, stolen, spun>>
    /\ UNCHANGED notUse

\* `async with _lock:` of _get_or_create or _release
SrAcquire(t) ==
    /\ hpc[t] \in {"get", "rel"}
    /\ Acquire(t)
    /\ UNCHANGED useVars
    /\ UNCHANGED notUse

\* _get_or_create returns the resident entry; `page = entry.page`
SrReuse(t) ==
    /\ hpc[t] = "get"
    /\ Reuse(t)
    /\ hpc' = [hpc EXCEPT ![t] = "use"]
    /\ hold' = [hold EXCEPT ![t] = EntryOf(pool, purl[t]).sid]
    /\ UNCHANGED <<hurl, stolen, spun>>
    /\ UNCHANGED notUse

\* _get_or_create evicts the least recently used entry and closes its page
\* and context
SrEvict(t) ==
    /\ hpc[t] = "get"
    /\ EvictOldest(t)
    /\ stolen' = IF UsedByOther(t, Head(pool).sid)
                 THEN stolen \cup {"evicted"}
                 ELSE stolen
    /\ UNCHANGED <<hpc, hurl, hold, spun>>
    /\ UNCHANGED notUse

\* _get_or_create returns a new entry, or _create_entry raises and
\* _search_impl returns what _search_fresh_context gives, before the
\* try block whose finally releases
SrCreate(t, ok) ==
    /\ hpc[t] = "get"
    /\ CreateEntry(t, ok)
    /\ hpc' = [hpc EXCEPT ![t] = IF ok THEN "use" ELSE "idle"]
    /\ hold' = [hold EXCEPT ![t] = IF ok THEN nextSid ELSE NoSid]
    /\ UNCHANGED <<hurl, stolen, spun>>
    /\ UNCHANGED notUse

\* the chat on the page is over, with `broken` set or not, and the finally
\* block reaches `await _release(target_url, broken=broken)`
SrFinally(t, b) ==
    /\ hpc[t] = "use"
    /\ PoolEnter(t, "_release", hurl[t], b)
    /\ hpc' = [hpc EXCEPT ![t] = "rel"]
    /\ hold' = [hold EXCEPT ![t] = NoSid]
    /\ UNCHANGED <<hurl, stolen, spun>>
    /\ UNCHANGED notUse

\* _release pops and closes the entry of the url when broken is set
SrRelease(t) ==
    /\ hpc[t] = "rel"
    /\ Release(t)
    /\ hpc' = [hpc EXCEPT ![t] = "idle"]
    /\ stolen' = IF /\ Evicts(pbroken[t], InPool(pool, purl[t]))
                    /\ UsedByOther(t, EntryOf(pool, purl[t]).sid)
                 THEN stolen \cup {"broken"}
                 ELSE stolen
    /\ UNCHANGED <<hurl, hold, spun>>
    /\ UNCHANGED notUse

\* build_tinkywiki_url(inp.repo_url) of the repositories searched
TargetUrls == {"u1", "u2"}

UseNext ==
    \/ \E t \in Coroutines, u \in TargetUrls : SrGet(t, u)
    \/ \E t \in Coroutines : SrAcquire(t)
    \/ \E t \in Coroutines : SrReuse(t)
    \/ \E t \in Coroutines : SrEvict(t)
    \/ \E t \in Coroutines, ok \in BOOLEAN : SrCreate(t, ok)
    \/ \E t \in Coroutines, b \in BOOLEAN : SrFinally(t, b)
    \/ \E t \in Coroutines : SrRelease(t)

\* ------------------------------------------------------------------------
\* session_pool.py : _get_or_create of one task under any value of
\* TINKYWIKI_SESSION_POOL_SIZE
\* ------------------------------------------------------------------------
\* config.SESSION_POOL_SIZE = _env_int(...): any integer of the environment
PoolSizes == (0 - 1)..MaxPoolSize

\* the task that calls _get_or_create
Getter == "p1"

\* the task calls _get_or_create(url)
EvCall(u) ==
    /\ InPool(pool, u) => EntryOf(pool, u).uses < MaxUses
    /\ PoolCall(Getter, "_get_or_create", u, FALSE)

\* one turn of `while len(_pool) >= config.SESSION_POOL_SIZE:` on an empty
\* pool: `if _pool:` of _evict_oldest is false and nothing is removed
PoolSpin(t) ==
    /\ ppc[t] = "locked"
    /\ pfn[t] = "_get_or_create"
    /\ ~InPool(pool, purl[t])
    /\ AtCapacity(pool, poolSize)
    /\ pool = <<>>
    /\ spun' = TRUE
    /\ UNCHANGED <<hpc, hurl, hold, stolen>>
    /\ UNCHANGED poolVars
    /\ UNCHANGED notUse

EvictNext ==
    \/ \E u \in Urls : EvCall(u)
    \/ PoolAcquire(Getter)
    \/ PoolReuse(Getter)
    \/ PoolEvict(Getter)
    \/ PoolSpin(Getter)
    \/ \E ok \in BOOLEAN : PoolCreate(Getter, ok)

\* the event loop runs the task whenever it can go on, and the calls of
\* Playwright that close or create a session come back
EvictFairness ==
    /\ WF_vars(PoolAcquire(Getter))
    /\ WF_vars(PoolReuse(Getter))
    /\ WF_vars(PoolEvict(Getter))
    /\ WF_vars(PoolSpin(Getter))
    /\ WF_vars(\E ok \in BOOLEAN : PoolCreate(Getter, ok))

MoreInit == CollapseInit /\ LocksInit /\ UseInit

InitDedup ==
    /\ DedupInit
    /\ FallbackInit
    /\ cfg = DefaultConfig
    /\ RateInit
    /\ rcfg = DefaultRateConfig
    /\ PoolInit
    /\ poolSize = MaxPoolSize
    /\ BrowserInit
    /\ GateInit
    /\ ShutInit
    /\ MoreInit

\* callers of fetch_page_with_fallback under any setting of the three flags
InitFallback ==
    /\ DedupInit
    /\ FallbackInit
    /\ RateInit
    /\ rcfg = DefaultRateConfig
    /\ PoolInit
    /\ poolSize = MaxPoolSize
    /\ BrowserInit
    /\ GateInit
    /\ ShutInit
    /\ MoreInit

\* callers of rate_limit.py under any setting of the limiter
InitRate ==
    /\ DedupInit
    /\ FallbackInit
    /\ cfg = DefaultConfig
    /\ RateInit
    /\ PoolInit
    /\ poolSize = MaxPoolSize
    /\ BrowserInit
    /\ GateInit
    /\ ShutInit
    /\ MoreInit

\* coroutines of session_pool.py under any pool size from 1 up
InitPool ==
    /\ DedupInit
    /\ FallbackInit
    /\ cfg = DefaultConfig
    /\ RateInit
    /\ rcfg = DefaultRateConfig
    /\ PoolInit
    /\ BrowserInit
    /\ GateInit
    /\ ShutInit
    /\ MoreInit

\* threads and tasks of browser.py in a process that has not yet started
\* the background loop
InitBrowser ==
    /\ DedupInit
    /\ FallbackInit
    /\ cfg = DefaultConfig
    /\ RateInit
    /\ rcfg = DefaultRateConfig
    /\ PoolInit
    /\ poolSize = MaxPoolSize
    /\ BrowserInit
    /\ GateInit
    /\ ShutInit
    /\ MoreInit

\* tool requests through fetch_page_or_error under the default limiter in a
\* process with TINKYWIKI_FALLBACK_ENABLED off, where fetch_page_with_fallback
\* is `return _try_tinkywiki(repo_url)`
InitGate ==
    /\ DedupInit
    /\ FallbackInit
    /\ cfg = [DefaultConfig EXCEPT !.FALLBACK_ENABLED = FALSE]
    /\ RateInit
    /\ rcfg = DefaultRateConfig
    /\ PoolInit
    /\ poolSize = MaxPoolSize
    /\ BrowserInit
    /\ GateInit
    /\ ShutInit
    /\ MoreInit

\* a serving process that is shut down, under the largest pool
InitShutdown ==
    /\ DedupInit
    /\ FallbackInit
    /\ cfg = DefaultConfig
    /\ RateInit
    /\ rcfg = DefaultRateConfig
    /\ PoolInit
    /\ poolSize = MaxPoolSize
    /\ BrowserInit
    /\ GateInit
    /\ ShutInit
    /\ MoreInit

\* two callers of fetch_page_with_fallback for one url
InitCollapse ==
    /\ DedupInit
    /\ FallbackInit
    /\ cfg = DefaultConfig
    /\ RateInit
    /\ rcfg = DefaultRateConfig
    /\ PoolInit
    /\ poolSize = MaxPoolSize
    /\ BrowserInit
    /\ GateInit
    /\ ShutInit
    /\ MoreInit

\* request threads on their way through the four locks
InitLocks ==
    /\ DedupInit
    /\ FallbackInit
    /\ cfg = DefaultConfig
    /\ RateInit
    /\ rcfg = DefaultRateConfig
    /\ PoolInit
    /\ poolSize = MaxPoolSize
    /\ BrowserInit
    /\ GateInit
    /\ ShutInit
    /\ MoreInit

\* _search_impl tasks on a pool with room for one session at least
InitUse ==
    /\ DedupInit
    /\ FallbackInit
    /\ cfg = DefaultConfig
    /\ RateInit
    /\ rcfg = DefaultRateConfig
    /\ PoolInit
    /\ BrowserInit
    /\ GateInit
    /\ ShutInit
    /\ MoreInit

\* one task calling _get_or_create under any configured pool size
InitEvict ==
    /\ DedupInit
    /\ FallbackInit
    /\ cfg = DefaultConfig
    /\ RateInit
    /\ rcfg = DefaultRateConfig
    /\ poolSize \in PoolSizes
    /\ PoolStart
    /\ BrowserInit
    /\ GateInit
    /\ ShutInit
    /\ MoreInit

SpecDedup ==
    /\ InitDedup
    /\ [][DedupNext]_vars

SpecDedupLive ==
    /\ InitDedup
    /\ [][DedupLiveNext]_vars
    /\ DedupFairness

SpecFallback ==
    /\ InitFallback
    /\ [][FallbackNext]_vars

SpecRate ==
    /\ InitRate
    /\ [][RateNext]_vars

SpecPool ==
    /\ InitPool
    /\ [][PoolNext]_vars

SpecBrowser ==
    /\ InitBrowser
    /\ [][BrowserNext]_vars

SpecGate ==
    /\ InitGate
    /\ [][GateNext]_vars

SpecShutdown ==
    /\ InitShutdown
    /\ [][ShutdownNext]_vars

SpecCollapse ==
    /\ InitCollapse
    /\ [][CollapseNext]_vars

SpecLocks ==
    /\ InitLocks
    /\ [][LocksNext]_vars

SpecUse ==
    /\ InitUse
    /\ [][UseNext]_vars

SpecEvict ==
    /\ InitEvict
    /\ [][EvictNext]_vars
    /\ EvictFairness

\* ------------------------------------------------------------------------
\* Properties of dedup_fetch (SpecDedup)
\* ------------------------------------------------------------------------
\* entries that have been constructed
Created == 1..(nextEntry - 1)

\* C1: the calls that share one in-flight entry run fetch_fn once, and when
\* fetch_fn returns a value every one of those calls returns that value
C1_SingleflightSameResult ==
    \A e \in Created :
        /\ fnCalls[e] <= 1
        /\ eFn[e].kind = "return" => \A o \in eSeen[e] : o = eFn[e]

\* C2: when the owner's fetch_fn raises, every call that shares the entry
\* raises that same exception and none returns a value or a default
C2_OwnerErrorToAll ==
    \A e \in Created :
        eFn[e].kind = "raise" => \A o \in eSeen[e] : o = eFn[e]

\* C3: in every reachable state at most one execution of fetch_fn started
\* through dedup_fetch is in flight for any key
C3_OneFetchPerKey ==
    \A k \in Keys :
        Cardinality({t \in Threads : dpc[t] = "fetching" /\ dkey[t] = k}) <= 1

\* a second caller has joined a key whose fetch_fn is running
C3_Witness ==
    \E t, u \in Threads :
        /\ dpc[t] = "fetching"
        /\ dpc[u] = "wait"
        /\ dkey[u] = dkey[t]

\* ------------------------------------------------------------------------
\* Properties of fetch_page_with_fallback (SpecFallback)
\* ------------------------------------------------------------------------
Invoked(s) == \E i \in 1..Len(calls) : calls[i] = s

\* the source calls of the request, without the indexing request
SourceCalls == SelectSeq(calls, LAMBDA c : c # "R")

\* the source returned a page the chain stops at
Succeeded(s) ==
    /\ srcOut[s].kind = "return"
    /\ srcOut[s].page # NoPage
    /\ s = "A" => ~IsNotIndexedError(srcOut[s].page)

\* the source was called and did not succeed
Failed(s) == Invoked(s) /\ ~Succeeded(s)

Rank(s) == CASE s = "A" -> 1 [] s = "B" -> 2 [] s = "C" -> 3

C5_LaterSourceProvenance ==
    fpc = "done" =>
        /\ (Invoked("B") /\ Succeeded("B")) =>
              fret = Ok(FallbackResult(srcOut.B.page, SOURCE_DEEPWIKI, TRUE, FALSE))
        /\ (Failed("B") /\ Invoked("C") /\ Succeeded("C")) =>
              fret = Ok(FallbackResult(srcOut.C.page, SOURCE_GITHUB_API, TRUE, TRUE))

\* the GitHub API produced the page after TinkyWiki and DeepWiki had failed
C5_Witness ==
    /\ fpc = "done"
    /\ Failed("A") /\ Failed("B") /\ Succeeded("C")
    /\ fret.fr.source = SOURCE_GITHUB_API

\* C6: when all three sources fail the request returns, without raising, a
\* result with page None and both not-indexed flags true
C6_Exhaustion ==
    (fpc = "done" /\ Failed("A") /\ Failed("B") /\ Failed("C")) =>
        /\ fret.kind = "return"
        /\ fret.fr.page = NoPage
        /\ fret.fr.tinkywiki_not_indexed
        /\ fret.fr.deepwiki_not_indexed

\* all three sources were tried and failed, one of them by raising
C6_Witness ==
    /\ fpc = "done"
    /\ Failed("A") /\ Failed("B") /\ Failed("C")
    /\ srcOut.B.kind = "raise"
    /\ srcOut.C.kind = "return"

C8_NoExceptionEscapes ==
    /\ fret.kind # "raise"
    /\ (fpc = "done" /\ cfg.FALLBACK_ENABLED) =>
          /\ (srcOut.A.kind = "raise" /\ cfg.DEEPWIKI_ENABLED) => Invoked("B")
          /\ (srcOut.A.kind = "raise" /\ ~cfg.DEEPWIKI_ENABLED
                /\ cfg.GITHUB_API_ENABLED) => Invoked("C")
          /\ (srcOut.B.kind = "raise" /\ cfg.GITHUB_API_ENABLED) => Invoked("C")
          /\ (srcOut.A.kind = "raise" /\ Invoked("B") /\ Succeeded("B")) =>
                fret.fr.page = srcOut.B.page
          /\ (\E s \in {"A", "B"} : srcOut[s].kind = "raise")
                /\ Invoked("C") /\ Succeeded("C") =>
                fret.fr.page = srcOut.C.page
          /\ srcOut.C.kind = "raise" =>
                fret = Ok(AllFailedResult(TRUE))
    /\ (fpc = "done" /\ ~cfg.FALLBACK_ENABLED /\ srcOut.A.kind = "raise") =>
          fret = Ok(FallbackResult(NoPage, SOURCE_CODEWIKI, FALSE, FALSE))

\* TinkyWiki and DeepWiki both raised and the GitHub API still served the page
C8_Witness ==
    /\ fpc = "done"
    /\ srcOut.A.kind = "raise"
    /\ srcOut.B.kind = "raise"
    /\ Succeeded("C")
    /\ fret.kind = "return"

\* C9: deepwiki_not_indexed is true in the returned result only if DeepWiki
\* was invoked in this request and failed
C9_FlagOnlyIfTried ==
    (fpc = "done" /\ fret.kind = "return" /\ fret.fr.deepwiki_not_indexed) =>
        Failed("B")

\* the not-found heuristic of the tool layer: no sections and an indicator
\* in the raw text; usable content is a non-empty page that does not match it
UsableContent(o) ==
    /\ o.kind = "return"
    /\ o.page # NoPage
    /\ ~(o.page.sections = <<>> /\ o.page.raw_text = <<>>)
    /\ ~IsNotIndexed(o.page)

\* C10: TinkyWiki's result is returned at once with source tinkywiki exactly
\* when it is non-empty content that has sections or has no negative-result
\* phrase in its raw text
C10_AcceptedIffUsable ==
    fpc = "done" =>
        /\ UsableContent(srcOut.A) =>
              /\ calls = <<"A">>
              /\ fret = Ok(FallbackResult(srcOut.A.page, SOURCE_CODEWIKI,
                                          FALSE, FALSE))
        /\ (cfg.FALLBACK_ENABLED /\ calls = <<"A">>) => UsableContent(srcOut.A)

\* the steps of the caller inside fetch_page_with_fallback
FbStep ==
    \/ FbOnlyTinkywiki \/ FbLayer1 \/ FbRequestIndexing \/ FbLayer2
    \/ FbSkipLayer2 \/ FbLayer3 \/ FbSkipLayer3 \/ FbAllFailed

\* positions of the indexing request in the calls of the request
IndexingCalls == {i \in 1..Len(calls) : calls[i] = "R"}

\* one indexing request, second in the calls, when TinkyWiki failed; none when
\* TinkyWiki succeeded; the caller always has a step to take
IndexingOncePerFailure ==
    /\ (cfg.FALLBACK_ENABLED /\ Failed("A")
          /\ fpc \in {"layer2", "layer3", "failed", "done"}) =>
            (IndexingCalls = {2} /\ calls[1] = "A")
    /\ (Invoked("A") /\ Succeeded("A")) => IndexingCalls = {}
    /\ (fpc \in {"enter", "index", "layer2", "layer3", "failed"}) =>
            ENABLED FbStep

\* the thread is started by the indexing step only, and its end touches
\* nothing of the request; no return happens together with a thread step
IndexingDetached ==
    /\ (autoIndex' > autoIndex) =>
            /\ autoIndex' = autoIndex + 1
            /\ calls' = Append(calls, "R")
            /\ fpc' = "layer2"
    /\ (autoIndex' < autoIndex) =>
            UNCHANGED <<cfg, fpc, result, twNotIndexed, fret, calls, srcOut>>
    /\ (fret' # fret) => autoIndex' = autoIndex

Nows == 0..clock

\* timestamps of the list that are inside the window that ends at n
ActiveCount(ts, n) ==
    Cardinality({i \in 1..Len(ts) : ts[i] > n - rcfg.window})

\* timestamps of the admitted calls of the logged key
Stamps == {x \in Ticks : admLog[x] > 0}
MinStamp == CHOOSE x \in Stamps : \A y \in Stamps : x <= y
MaxStamp == CHOOSE x \in Stamps : \A y \in Stamps : x >= y

\* the calls admitted so far and a call with `now` = n lie inside one window
InOneWindow(n) ==
    Max(MaxStamp, n) - (IF MinStamp <= n THEN MinStamp ELSE n) < rcfg.window

\* C12: from an empty window the first max_calls calls are admitted; the next
\* call inside the same window is rejected; a call made once the window has
\* elapsed since the oldest admitted call is admitted again
C12_Boundary ==
    \A n \in Nows :
        LET ok == CheckRateLimit(windows[LoggedKey], n, rcfg).ok IN
        /\ AdmTotal < rcfg.max_calls => ok
        /\ (AdmTotal = rcfg.max_calls /\ InOneWindow(n)) => ~ok
        /\ (AdmTotal = rcfg.max_calls /\ n >= MinStamp + rcfg.window) => ok

\* max_calls calls were admitted at tick 0 and, the window elapsed, one more
C12_Witness ==
    /\ rcfg.max_calls = 2
    /\ admLog[0] = 2
    /\ AdmTotal = 3
    /\ windows[LoggedKey] = <<rcfg.window>>

\* admitted calls whose timestamp lies in (t - window, t]
LoadAt(t) == SumTo(admLog, t) - SumTo(admLog, t - rcfg.window)

\* occurrences of the timestamp in the list
CountIn(ts, x) == Cardinality({i \in 1..Len(ts) : ts[i] = x})

\* C13: under any interleaving, for every instant t the admitted calls with a
\* timestamp in (t - window, t] are at most RATE_LIMIT_MAX_CALLS, and only
\* admitted calls leave a timestamp
C13_SlidingWindowCap ==
    /\ \A t \in Ticks : LoadAt(t) <= rcfg.max_calls
    /\ \A x \in Ticks : CountIn(windows[LoggedKey], x) <= admLog[x]

\* the lock section of check_rate_limit(k) ran in this step
CheckStepOn(k) ==
    \E n \in Nows : windows'[k] = CheckRateLimit(windows[k], n, rcfg).ts

\* a window changes only by a check on its own key, a thread inside a check on
\* one key leaves the other windows alone
KeyFrame ==
    /\ \A k \in RepoKeys :
          windows'[k] # windows[k] =>
              /\ CheckStepOn(k)
              /\ \A j \in RepoKeys \ {k} : windows'[j] = windows[j]
    /\ \A t \in Callers :
          (rpc[t] \in {"check", "recheck"} /\ rpc'[t] # rpc[t]) =>
              \A j \in RepoKeys \ {rkey[t]} : windows'[j] = windows[j]

\* a key nobody used is admissible whatever the state of the other keys and
\* threads, and a check on the other key can always run
KeyAdmissible ==
    /\ \A k \in RepoKeys :
          windows[k] = <<>> =>
              \A n \in Nows : CheckRateLimit(windows[k], n, rcfg).ok
    /\ ENABLED RlCheckRateLimit("b", clock)

\* C14: operations on one key, a thread sleeping in auto-wait included, never
\* change the window of another key nor delay or alter its admission;
\* exhausting a key leaves the other fully admissible
C14_KeyIndependence ==
    /\ [][KeyFrame]_vars
    /\ []KeyAdmissible

\* key a is exhausted and a thread sleeps in auto-wait on it while a call on
\* key b, made after the sleep began, was admitted
C14_Witness ==
    \E t \in Callers :
        /\ rpc[t] = "sleep"
        /\ rkey[t] = "a"
        /\ clock = rwake[t] - 1
        /\ ActiveCount(windows["a"], clock) = rcfg.max_calls
        /\ windows["b"] = <<clock>>

\* C15: the timestamps a function works with are inside the trailing window
\* of its `now`: check_rate_limit keeps no others, and check_rate_limit,
\* time_until_next_slot and rate_limit_remaining count no others
C15_WindowInvariant ==
    \A k \in RepoKeys, n \in Nows :
        LET r == CheckRateLimit(windows[k], n, rcfg)
            c == ActiveCount(windows[k], n)
        IN  /\ \A i \in 1..Len(r.ts) : r.ts[i] > n - rcfg.window
            /\ r.ok <=> c < rcfg.max_calls
            /\ TimeUntilNextSlot(windows[k], n, rcfg) = 0 <=> c < rcfg.max_calls
            /\ RateLimitRemaining(windows[k], n, rcfg) = Max(0, rcfg.max_calls - c)

\* the list still holds timestamps that have expired by now and the next
\* check has not pruned yet
C15_Witness ==
    /\ Len(windows[LoggedKey]) = rcfg.max_calls
    /\ ActiveCount(windows[LoggedKey], clock) = 0
    /\ CheckRateLimit(windows[LoggedKey], clock, rcfg).ts = <<clock>>

\* the wait the thread gets from time_until_next_slot in this step
WaitOf(t) == TimeUntilNextSlot(windows[rkey[t]], rnow[t], rcfg)

\* what the thread does after time_until_next_slot when it does not re-check
\* at once: give up without sleeping and without a timestamp, or sleep
GiveUpOrSleep(t) ==
    IF WaitOf(t) > rcfg.max_wait
    THEN /\ rpc'[t] = "idle"
         /\ rok'[t] = "false"
         /\ rslept'[t] = 0
         /\ windows' = windows
         /\ admLog' = admLog
    ELSE /\ rpc'[t] = "sleep"
         /\ rslept'[t] = 1
         /\ rwake'[t] = clock + WaitOf(t) + SLEEP_MARGIN

\* C16, the statement as given: after a rejected first check the thread gives up
\* when the wait exceeds the maximum and sleeps once otherwise
C16_SleepsUnlessTooLong ==
    [][\A t \in Callers :
          (rpc[t] = "slot" /\ rpc'[t] # "slot") => GiveUpOrSleep(t)]_vars

AutoWaitRank(pc) ==
    CASE pc = "check" -> 1 [] pc = "slotnow" -> 2 [] pc = "slot" -> 3
      [] pc = "nosleep" -> 4 [] pc = "sleep" -> 4 [] pc = "recheck" -> 5
      [] OTHER -> 0

\* one step of a thread inside wait_for_rate_limit
AutoWaitStep(t) ==
    /\ (rpc[t] = "check" /\ rpc'[t] = "slotnow") =>
          /\ rcfg.auto_wait
          /\ windows'[rkey[t]] = Active(windows[rkey[t]], rnow[t], rcfg)
          /\ admLog' = admLog
    /\ (rpc[t] = "slot" /\ rpc'[t] # "slot") =>
          IF WaitOf(t) <= 0
          THEN rpc'[t] = "nosleep" /\ rslept'[t] = 0 /\ windows' = windows
          ELSE GiveUpOrSleep(t)
    /\ (rpc[t] = "sleep" /\ rpc'[t] # "sleep") =>
          clock >= rwake[t] /\ rpc'[t] = "recheck"
    /\ (rpc[t] = "recheck" /\ rpc'[t] # "recheck") =>
          /\ rpc'[t] = "idle"
          /\ rslept'[t] = rslept[t]
          /\ rok'[t] = "true" <=>
                CheckRateLimit(windows[rkey[t]], rnow[t], rcfg).ok
    /\ (rpc[t] # "idle" /\ rpc'[t] \notin {"idle", rpc[t]}) =>
          AutoWaitRank(rpc'[t]) > AutoWaitRank(rpc[t])

\* C16: with auto-wait on, after a rejected first check: a wait of 0 means a
\* slot opened meanwhile and the thread re-checks at once without sleeping;
\* a wait above RATE_LIMIT_MAX_WAIT_SECONDS returns False without sleeping
\* and without a timestamp; any other wait is slept once, wait plus margin,
\* and one re-check gives the result.  The positions of the thread only
\* advance, so the call ends after at most one sleep of bounded length.
C16_BoundedAutoWait ==
    /\ [][\A t \in Callers : AutoWaitStep(t)]_vars
    /\ [](\A t \in Callers :
            /\ rslept[t] <= 1
            /\ rpc[t] = "sleep" =>
                  rwake[t] <= clock + rcfg.max_wait + SLEEP_MARGIN)

\* the thread slept once and its re-check was admitted
C16_Witness ==
    \E t \in Callers :
        /\ rpc[t] = "idle"
        /\ rslept[t] = 1
        /\ rok[t] = "true"

\* C17: time_until_next_slot returns 0 exactly when fewer than max_calls
\* timestamps are active; otherwise a wait d with 0 < d <= window after which
\* a check with no admission in between is admitted
C17_TimeUntilNextSlot ==
    \A k \in RepoKeys, n \in Nows :
        LET d == TimeUntilNextSlot(windows[k], n, rcfg) IN
        /\ d = 0 <=> ActiveCount(windows[k], n) < rcfg.max_calls
        /\ d # 0 =>
              /\ 0 < d
              /\ d <= rcfg.window
              /\ CheckRateLimit(windows[k], n + d, rcfg).ok

\* C18: rate_limit_remaining is max(0, max_calls - active timestamps): it is
\* max_calls for an unused key, one less after an admitted call, never
\* negative, and 0 exactly when a check with the same `now` is rejected
C18_Remaining ==
    \A k \in RepoKeys, n \in Nows :
        LET rem == RateLimitRemaining(windows[k], n, rcfg)
            r == CheckRateLimit(windows[k], n, rcfg)
        IN  /\ rem = Max(0, rcfg.max_calls - ActiveCount(windows[k], n))
            /\ rem >= 0
            /\ windows[k] = <<>> => rem = rcfg.max_calls
            /\ rem = 0 <=> ~r.ok
            /\ RateLimitRemaining(r.ts, n, rcfg) = IF r.ok THEN rem - 1 ELSE rem

\* one of two calls is used up
C18_Witness ==
    /\ rcfg.max_calls = 2
    /\ AdmTotal = 1
    /\ windows[LoggedKey] = <<clock>>
    /\ RateLimitRemaining(windows[LoggedKey], clock, rcfg) = 1

\* ------------------------------------------------------------------------
\* Properties of the session pool (SpecPool)
\* ------------------------------------------------------------------------
PoolUrls == {pool[i].url : i \in 1..Len(pool)}

\* C19: with SESSION_POOL_SIZE >= 1, in every state of every interleaving of
\* _get_or_create, _release and _cleanup_all the pool holds at most
\* SESSION_POOL_SIZE entries, one per url
C19_PoolCapacity ==
    /\ Len(pool) <= poolSize
    /\ Cardinality(PoolUrls) = Len(pool)

\* a _get_or_create found the pool full, evicted an entry and stored its own
C19_Witness ==
    \E t \in Coroutines :
        /\ pfn[t] = "_get_or_create"
        /\ pret[t] = "entry"
        /\ pclosed[t] # {}
        /\ Len(pool) = poolSize
        /\ poolSize = MaxPoolSize

\* the step of a coroutine that evicts inside _get_or_create
EvictionBy(t) ==
    /\ plock = t
    /\ pfn[t] = "_get_or_create"
    /\ Len(pool') < Len(pool)

\* C20: the entry _get_or_create evicts for a url that is not in a full pool
\* is the one whose last _get_or_create is the oldest: it leaves the pool
\* and is closed, the others stay; with SESSION_POOL_SIZE = 1 storing an
\* entry leaves only that entry in the pool
C20_LruEviction ==
    [][\A t \in Coroutines :
          /\ EvictionBy(t) =>
                /\ ~InPool(pool, purl[t])
                /\ Len(pool) = poolSize
                /\ PoolUrls' = PoolUrls \ {Head(accessOrder)}
                /\ Head(accessOrder) \in pclosed'[t]
          /\ (plock = t /\ pret'[t] = "entry" /\ poolSize = 1) =>
                PoolUrls' = {purl[t]}]_vars

\* u1 was stored first and used again after u2 was stored; u3 then evicted u2
C20_Witness ==
    \E t \in Coroutines :
        /\ poolSize = 2
        /\ pfn[t] = "_get_or_create"
        /\ pclosed[t] = {"u2"}
        /\ Len(pool) = 2
        /\ pool[1].url = "u1" /\ pool[1].uses = 2
        /\ pool[2].url = "u3" /\ pool[2].uses = 1

\* the step in which coroutine t returns from _get_or_create(url)
GetReturns(t) ==
    /\ plock = t
    /\ pfn[t] = "_get_or_create"
    /\ pret'[t] = "entry"

\* C21: _get_or_create(url) for a url that is in the pool returns the entry
\* that is in the pool, with its use counter one higher, as the most
\* recently used entry; the other entries keep their order, no entry is
\* created and none is closed; an entry that was just created has counter 1
C21_PoolReuse ==
    [][\A t \in Coroutines :
          /\ (GetReturns(t) /\ InPool(pool, purl[t])) =>
                /\ pentry'[t] = EntryOf(pool, purl[t]).sid
                /\ EntryOf(pool', purl[t]).sid = EntryOf(pool, purl[t]).sid
                /\ EntryOf(pool', purl[t]).uses =
                       EntryOf(pool, purl[t]).uses + 1
                /\ pool'[Len(pool')].url = purl[t]
                /\ Without(pool', purl[t]) = Without(pool, purl[t])
                /\ PoolUrls' = PoolUrls
                /\ nextSid' = nextSid
                /\ closedSids' = closedSids
          /\ (GetReturns(t) /\ ~InPool(pool, purl[t])) =>
                /\ EntryOf(pool', purl[t]).uses = 1
                /\ pentry'[t] = EntryOf(pool', purl[t]).sid
                /\ pentry'[t] \notin {pool[i].sid : i \in 1..Len(pool)}]_vars

\* the first entry created was asked for again after a second one had been
\* stored: it was returned with counter 2 and is the most recently used
C21_Witness ==
    \E t \in Coroutines :
        /\ pfn[t] = "_get_or_create"
        /\ pret[t] = "entry"
        /\ pentry[t] = 1
        /\ nextSid = 3
        /\ closedSids = {}
        /\ Len(pool) = 2
        /\ pool[1].sid = 2
        /\ pool[2].sid = 1 /\ pool[2].uses = 2

\* the step in which coroutine t returns from _release(url, broken)
ReleaseReturns(t) ==
    /\ plock = t
    /\ pfn[t] = "_release"
    /\ ppc'[t] = "idle"

PoolSids == {pool[i].sid : i \in 1..Len(pool)}

\* C22: _release(url, broken=True) takes the entry of url out of the pool
\* wherever it stands and whatever its use count, closes it, and leaves the
\* other entries as they are; _release(url, broken=False) changes nothing;
\* an entry that was closed is never in the pool again nor returned, so
\* the next _get_or_create(url) constructs a new entry with counter 1
C22_BrokenInvalidation ==
    [][\A t \in Coroutines :
          /\ (ReleaseReturns(t) /\ pbroken[t] /\ InPool(pool, purl[t])) =>
                /\ pool' = Without(pool, purl[t])
                /\ ~InPool(pool', purl[t])
                /\ closedSids' = closedSids \cup {EntryOf(pool, purl[t]).sid}
          /\ (ReleaseReturns(t) /\ ~(pbroken[t] /\ InPool(pool, purl[t]))) =>
                /\ pool' = pool
                /\ closedSids' = closedSids
          /\ ReleaseReturns(t) => nextSid' = nextSid
          /\ GetReturns(t) =>
                /\ pentry'[t] \notin closedSids'
                /\ ~InPool(pool, purl[t]) =>
                      /\ EntryOf(pool', purl[t]).uses = 1
                      /\ EntryOf(pool', purl[t]).sid = nextSid
          /\ PoolSids' \cap closedSids' = {}]_vars

\* u1 was stored, then u2; u1 was released as broken and closed, and the
\* next _get_or_create("u1") stored a third entry with counter 1
C22_Witness ==
    \E t \in Coroutines :
        /\ pfn[t] = "_get_or_create"
        /\ pret[t] = "entry"
        /\ pentry[t] = 3
        /\ closedSids = {1}
        /\ Len(pool) = 2
        /\ pool[1] = [url |-> "u2", uses |-> 1, sid |-> 2]
        /\ pool[2] = [url |-> "u1", uses |-> 1, sid |-> 3]

\* the step in which _create_entry raises inside coroutine t's _get_or_create
CreateFails(t) ==
    /\ plock = t
    /\ pfn[t] = "_get_or_create"
    /\ pret'[t] = "raised"

\* _lock is held only by a coroutine that is inside `async with _lock`, and
\* a coroutine that waits for the lock enters when it is free
LockHeldInside ==
    /\ plock # None => ppc[plock] = "locked"
    /\ \A t \in Coroutines : ppc[t] = "locked" => plock = t
    /\ \A t \in Coroutines :
          (ppc[t] = "lock" /\ plock = None) => ENABLED PoolAcquire(t)

\* C23: when _create_entry raises inside _get_or_create(url) the exception
\* leaves _get_or_create, no entry is returned or constructed, url is not
\* in the pool, and _lock is free, so the coroutines waiting for it go on
C23_CreateFailure ==
    /\ []LockHeldInside
    /\ [][\A t \in Coroutines :
             CreateFails(t) =>
                /\ ~InPool(pool', purl[t])
                /\ pool' = pool
                /\ pentry'[t] = NoSid
                /\ nextSid' = nextSid
                /\ ppc'[t] = "idle"
                /\ plock' = None]_vars

\* the creation failed after an entry had been evicted for it, and the other
\* coroutine has entered `async with _lock` since
C23_Witness ==
    \E t, u \in Coroutines :
        /\ pfn[t] = "_get_or_create"
        /\ pret[t] = "raised"
        /\ pclosed[t] # {}
        /\ ppc[u] = "locked"
        /\ plock = u

\* the step in which coroutine t returns from _cleanup_all()
CleanupReturns(t) ==
    /\ plock = t
    /\ pfn[t] = "_cleanup_all"
    /\ ppc'[t] = "idle"

\* the call that finished last was a _cleanup_all
CleanupWasLast ==
    \E u \in Coroutines :
        ppc[u] = "idle" /\ pfn[u] = "_cleanup_all" /\ pret[u] = "None"

\* C24: _cleanup_all closes every entry of the pool, leaves the pool empty
\* and raises nothing; a _cleanup_all that follows a _cleanup_all finds the
\* pool empty, closes nothing, raises nothing and leaves the pool empty
C24_CleanupIdempotent ==
    [][\A t \in Coroutines :
          CleanupReturns(t) =>
             /\ pool' = <<>>
             /\ pret'[t] = "None"
             /\ closedSids' = closedSids \cup PoolSids
             /\ pclosed'[t] = PoolUrls
             /\ nextSid' = nextSid
             /\ CleanupWasLast =>
                   /\ pool = <<>>
                   /\ closedSids' = closedSids
                   /\ pclosed'[t] = {}]_vars

\* a _cleanup_all closed the two entries of a full pool, and the other
\* coroutine is inside the _cleanup_all that follows it
C24_Witness ==
    \E t, u \in Coroutines :
        /\ ppc[t] = "idle" /\ pfn[t] = "_cleanup_all" /\ pret[t] = "None"
        /\ Cardinality(pclosed[t]) = 2
        /\ closedSids = {1, 2}
        /\ pool = <<>>
        /\ pfn[u] = "_cleanup_all" /\ plock = u

\* ------------------------------------------------------------------------
\* Further properties of dedup_fetch (SpecDedup)
\* ------------------------------------------------------------------------
\* C25: a waiter whose event.wait(timeout=120) expired while the owner's
\* fetch_fn had neither returned nor raised does not go on to
\* `return entry.result`, which is still the None of the constructor
C25_WaitTimeoutIsError ==
    \A t \in Threads :
        ~ /\ timedOut[t]
          /\ dpc[t] = "ret"
          /\ eFn[dentry[t]] = NoOutcome
          /\ entries[dentry[t]].result = None

\* C26: a dedup_fetch call that starts when the owner of its key has
\* recorded its outcome and set the event never joins that entry: it
\* becomes the owner of a new entry and runs fetch_fn itself
C26_FreshAfterCompletion ==
    [][\A t \in Threads :
          (dpc[t] = "idle" /\ dpc'[t] # "idle") =>
              \/ /\ isOwner'[t]
                 /\ dpc'[t] = "fetching"
                 /\ dentry'[t] = nextEntry
              \/ /\ ~isOwner'[t]
                 /\ ~entries[dentry'[t]].event]_vars

\* the threads that own an entry whose event is not yet set
Owning == {o \in Threads : isOwner[o] /\ dpc[o] \in {"fetching", "finally"}}

\* a thread is held up only by the owner of an entry of its own key, and an
\* idle thread can start a fetch of any key that has no entry whatever the
\* calls for the other keys are doing
OnlyOwnKeyBlocks ==
    /\ \A t \in Threads :
          (dpc[t] = "wait" /\ ~entries[dentry[t]].event) =>
              \E o \in Owning : dkey[o] = dkey[t] /\ dentry[o] = dentry[t]
    /\ \A t \in Threads, k \in Keys :
          (dpc[t] = "idle" /\ nextEntry <= MaxEntries /\
           \A o \in Threads : dkey[o] # k) => ENABLED DedupOwn(t, k)
    /\ \A t, o \in Threads :
          (dpc[t] = "fetching" /\ dpc[o] = "fetching" /\ dkey[t] # dkey[o])
              => dentry[t] # dentry[o]

\* a call for a key none of the calls in progress is about becomes an owner
OwnKeyOwnFetch ==
    \A t \in Threads :
        (dpc[t] = "idle" /\ dpc'[t] # "idle" /\
         \A o \in Threads : dkey[o] # dkey'[t]) =>
            /\ isOwner'[t]
            /\ dpc'[t] = "fetching"
            /\ fnCalls'[dentry'[t]] = 1

\* C27: dedup_fetch calls with distinct keys do not hold each other up and
\* each runs its own fetch_fn: a call never waits for the fetch of another
\* key, neither at the registry nor at an entry's event
C27_KeyIsolation ==
    /\ []OnlyOwnKeyBlocks
    /\ [][OwnKeyOwnFetch]_vars

\* fetch_fn is running for k1 and for k2 at once, each for its own entry
C27_Witness ==
    \E t, o \in Threads :
        /\ dpc[t] = "fetching" /\ dkey[t] = "k1"
        /\ dpc[o] = "fetching" /\ dkey[o] = "k2"
        /\ dentry[t] # dentry[o]
        /\ fnCalls[dentry[t]] = 1 /\ fnCalls[dentry[o]] = 1

\* C28: every entry in the registry belongs to an owner that has not yet
\* passed the pop of its finally block; an owner that is about to return or
\* raise has taken its entry out, after a fetch_fn that returned and after
\* one that raised; with no dedup_fetch call in progress inflight_count()
\* is 0
C28_RegistryDrained ==
    /\ \A k \in Keys :
          inflight[k] # NoEntry =>
              \E o \in Threads :
                  /\ isOwner[o]
                  /\ dkey[o] = k
                  /\ dentry[o] = inflight[k]
                  /\ dpc[o] \in {"fetching", "finally", "pop"}
    /\ \A o \in Threads :
          (isOwner[o] /\ dpc[o] \in {"check", "ret"}) =>
              inflight[dkey[o]] # dentry[o]
    /\ (\A t \in Threads : dpc[t] = "idle") => InflightCount = 0

\* two fetches are over, one returned and one raised, no call is in
\* progress and the registry is empty
C28_Witness ==
    /\ \A t \in Threads : dpc[t] = "idle"
    /\ nextEntry = 3
    /\ {eFn[1].kind, eFn[2].kind} = {"return", "raise"}
    /\ eFn[1] \in eSeen[1] /\ eFn[2] \in eSeen[2]
    /\ InflightCount = 0

\* ------------------------------------------------------------------------
\* Properties of the background loop and the shared browser (SpecBrowser)
\* ------------------------------------------------------------------------
\* C29: under every interleaving of the tasks of the background loop at most
\* one browser is launched and still running (connected and not closed)
C29_SingleEngine ==
    Cardinality(connected) <= 1

\* C30: under every interleaving of the threads that call
\* run_in_browser_loop, asyncio.new_event_loop() is called at most once and
\* one "pw-loop" thread is started for it; every caller gets that loop from
\* _ensure_loop and every task is submitted to it
C30_SingleLoop ==
    /\ loopsCreated <= 1
    /\ threadsStarted = loopsCreated
    /\ bloop = loopsCreated
    /\ \A t \in Submitters :
          spc[t] \in {"submit", "result"} => sloop[t] = 1
    /\ \A a \in Tasks : tpc[a] # "none" => tloop[a] = 1
    /\ block # None => spc[block] \in {"inlock", "create"}
    /\ \A t \in Submitters : spc[t] \in {"inlock", "create"} => block = t

\* both threads went through _ensure_loop before any task was submitted,
\* and their two tasks are on the one loop
C30_Witness ==
    /\ loopsCreated = 1
    /\ threadsStarted = 1
    /\ \A t \in Submitters : spc[t] = "result" /\ sloop[t] = bloop
    /\ \A a \in Tasks : tpc[a] # "none" /\ tloop[a] = bloop

\* a task that is still running and whose caller no longer waits for it
Orphaned(a) ==
    /\ tpc[a] \notin {"none", "done", "failed"}
    /\ \A t \in Submitters : stask[t] # a

\* the next step of the coroutine of task a
TaskStep(a) ==
    \/ GbCheck(a)
    \/ \E ok \in BOOLEAN : GbStarted(a, ok)
    \/ \E ok \in BOOLEAN : GbLaunched(a, ok)
    \/ TaskUse(a)
    \/ CbClose(a)
    \/ CbSkip(a)
    \/ CbClearB(a)
    \/ CbClearPw(a)

\* the step in which future.result(timeout=...) gives up
TimesOut(t) ==
    /\ spc[t] = "result"
    /\ spc'[t] = "idle"
    /\ sret'[t] = "timeout"

\* C31: when the wait of run_in_browser_loop expires the caller gets the
\* timeout error and the task is left as it is, not cancelled; a task whose
\* caller gave up can always take its next step, and the browser it
\* launches after that is stored in _browser, the browser it closes is
\* closed and the handles it clears are cleared
C31_NonCancellingTimeout ==
    /\ [](\A a \in Tasks : Orphaned(a) => ENABLED TaskStep(a))
    /\ [][\A t \in Submitters :
             TimesOut(t) =>
                /\ tpc[stask[t]] \notin {"none", "done", "failed"}
                /\ tpc'[stask[t]] = tpc[stask[t]]
                /\ \A u \in Submitters : stask'[u] # stask[t]
                /\ UNCHANGED <<tkind, tloop, tbrowser, engineVars>>]_vars
    /\ [][\A a \in Tasks :
             /\ (Orphaned(a) /\ tpc[a] = "launching" /\ tpc'[a] = "using") =>
                   browser' = tbrowser[a] /\ tbrowser[a] \in connected'
             /\ (Orphaned(a) /\ tpc[a] = "clearB" /\ tpc'[a] # "clearB") =>
                   browser' = NoBrowser
             /\ (Orphaned(a) /\ tpc[a] = "clearPw" /\ tpc'[a] # "clearPw") =>
                   pw' = NoBrowser]_vars

\* a caller timed out, and the task it had submitted has since launched
\* the browser, stored it in _browser and run to its end
C31_Witness ==
    \E t \in Submitters, a \in Tasks :
        /\ sret[t] = "timeout"
        /\ spc[t] = "idle"
        /\ \A u \in Submitters : stask[u] # a
        /\ tpc[a] = "done"
        /\ tkind[a] = "use"
        /\ browser = tbrowser[a]
        /\ browser \in connected

\* the request of "c1" was refused by wait_for_rate_limit and has its answer
DeniedAnswered == gpc = "done" /\ rok["c1"] = "false"

\* the refused request is answered RATE_LIMITED with calls_remaining 0 and
\* a retry_after inside the window, and nothing of the fetch path ran for it
DeniedShape ==
    DeniedAnswered =>
        /\ gresp.code = "RATE_LIMITED"
        /\ gresp.calls_remaining = 0
        /\ gresp.retry_after_seconds \in 0..rcfg.window
        /\ fpc = "idle"
        /\ calls = <<>>
        /\ srcOut = NoCalls

\* fetch_page_with_fallback runs or has run for the request only if
\* wait_for_rate_limit returned True for it
FetchOnlyAdmitted == fpc # "idle" => (gpc \in {"fetch", "done"} /\ rok["c1"] = "true")

\* the step in which wait_for_rate_limit turns out True puts the request's
\* timestamp at the end of the repository's window
AdmissionRecorded ==
    (rok["c1"] # "true" /\ rok'["c1"] = "true") =>
        /\ windows'[WindowOf(rkey["c1"])] # <<>>
        /\ windows'[WindowOf(rkey["c1"])][Len(windows'[WindowOf(rkey["c1"])])]
             = rnow["c1"]
        /\ admLog'[rnow["c1"]] = admLog[rnow["c1"]] + 1

\* while the request is inside wait_for_rate_limit, no source is called, no
\* indexing request is started and the dedup registry is not touched
NothingBeforeVerdict ==
    (gpc = "limit" /\ gpc' = "limit") =>
        UNCHANGED <<fpc, calls, srcOut, autoIndex, inflight, entries>>

Finished == shpc = "exited"

\* C33: the shutdown closes every pooled session before it closes the
\* engine, and when it has finished the pool is empty.
C33_ShutdownDrainsThenStops ==
    Finished => (shLeft = {} /\ pool = <<>>)

\* the step in which _cleanup_all of the shutdown leaves its lock section
CleanupAllEnds ==
    ppc["p2"] = "locked" /\ pfn["p2"] = "_cleanup_all" /\ ppc'["p2"] = "idle"

\* _cleanup_all returns None with every entry passed to _close_entry and
\* the pool empty, whichever closes raised
PoolCleanedWhatever ==
    CleanupAllEnds =>
        /\ pret'["p2"] = "None"
        /\ SidsOf(pool) \subseteq closedSids'
        /\ pool' = <<>>

\* cleanup_browser ends with close() called on the browser, stop() called on
\* the driver and both handles None, whichever of the two raised
EngineClearedWhatever ==
    (shpc = "engine" /\ shpc' # "engine") =>
        /\ shpc' = "stopped"
        /\ browser' = NoBrowser
        /\ pw' = NoBrowser
        /\ browser # NoBrowser => browser \in closedB'
        /\ pw # NoBrowser => pw \in shStopped'

\* C34: a failure while closing a pooled session, the browser or the driver
\* is swallowed: it does not reach the caller of the shutdown and does not
\* keep the remaining resources from being closed; _cleanup_all leaves the
\* pool empty and cleanup_browser leaves both engine handles cleared.
C34_BestEffortCleanup ==
    /\ [](shpc # "crashed")
    /\ [][PoolCleanedWhatever /\ EngineClearedWhatever]_vars

\* the shutdown got through although the close of a session, of the browser
\* and of the driver raised; two sessions were closed, one without failure
C34_Witness ==
    /\ shpc = "stopped"
    /\ ~shTimedOut
    /\ \E x \in closedSids, y \in closedSids :
          x # y /\ <<"session", x>> \in shErr /\ <<"session", y>> \notin shErr
    /\ \E b \in closedB : <<"browser", b>> \in shErr
    /\ \E q \in shStopped : <<"driver", q>> \in shErr
    /\ pool = <<>>
    /\ browser = NoBrowser
    /\ pw = NoBrowser

\* no url is listed twice in the pool
UniqueKeys ==
    \A i \in 1..Len(pool), j \in 1..Len(pool) : i # j => pool[i].url # pool[j].url

\* what any task can see of the pool: never more entries than the capacity
\* and never an entry that was passed to _close_entry
PoolWhole ==
    /\ Len(pool) <= poolSize
    /\ SidsOf(pool) \cap closedSids = {}

\* a session is created only by the task that holds the lock, for a url
\* that is not resident
CreatedUnderLock ==
    nextSid' # nextSid =>
        \E t \in Coroutines :
            /\ plock = t
            /\ ppc[t] = "locked"
            /\ ~InPool(pool, purl[t])
            /\ pool' = Append(pool, NewEntry(purl[t], nextSid))

\* a _get_or_create that finds its url resident creates nothing and returns
\* the resident entry with its use counter one higher
SecondReuses ==
    \A t \in Coroutines :
        (/\ ppc[t] = "locked"
         /\ pfn[t] = "_get_or_create"
         /\ InPool(pool, purl[t])
         /\ ppc'[t] = "idle") =>
            /\ nextSid' = nextSid
            /\ pentry'[t] = EntryOf(pool, purl[t]).sid
            /\ EntryOf(pool', purl[t]).sid = EntryOf(pool, purl[t]).sid
            /\ EntryOf(pool', purl[t]).uses = EntryOf(pool, purl[t]).uses + 1

\* C35: the pool lock serialises the mutations of the pool across the
\* awaits: of two tasks in _get_or_create for the same non-resident url one
\* creates the session and the other, once it has the lock, reuses that
\* entry (use counter 2); no url is ever listed twice, the pool never
\* exceeds its capacity and never lists a closed entry.
C35_PoolSerialised ==
    /\ [](UniqueKeys /\ PoolWhole)
    /\ [][CreatedUnderLock /\ SecondReuses]_vars

\* p1 has created the session of u1 and returned it; p2, which asked for
\* the same url, now holds the lock and finds the entry with use counter 1
C35_Witness ==
    /\ pret["p1"] = "entry"
    /\ pfn["p1"] = "_get_or_create"
    /\ ppc["p2"] = "locked"
    /\ pfn["p2"] = "_get_or_create"
    /\ InPool(pool, purl["p2"])
    /\ EntryOf(pool, purl["p2"]).sid = pentry["p1"]
    /\ EntryOf(pool, purl["p2"]).uses = 1

\* both calls are over
BothReturned == \A t \in FbCallers : kpc[t] = "done"

\* C36: overlapping calls of fetch_page_with_fallback for one url collapse
\* into one operation on the whole path: every source is fetched at most
\* once, at most one indexing request is made, and the callers get the
\* same result (here for the calls that met in one fetch of source A).
C36_WholePathCollapse ==
    (koverlap /\ kcount["A"] <= 1) =>
        /\ \A x \in Operations : kcount[x] <= 1
        /\ BothReturned => kres["f1"] = kres["f2"]

\* the locks a thread or task holds
HeldBy(h) == {l \in Locks : held[l] = h}

\* fetch_fn of the owner runs: from the call of run_in_browser_loop to the
\* arrival of the result
InFetchFn(t) ==
    lkind[t] = "page" /\ lpc[t] \in {"ensure", Inside("ensure"), "result"}

\* a thread inside fetch_fn holds at most the bridge lock of its own
\* _ensure_loop section, a waiter and a sleeper hold nothing, and nothing
\* is held by a thread or task that is about to take a lock
NothingHeldAcross ==
    \A t \in LockThreads :
        /\ InFetchFn(t) => HeldBy(t) \subseteq {"bridge"}
        /\ lpc[t] \in {"wait", "sleep", "result", "idle"} => HeldBy(t) = {}
        /\ lpc[t] \in LockPoints => HeldBy(t) = {}
        /\ ltask[t] \in TaskLockPoints => HeldBy(TaskOf(t)) = {}

SignalSet ==
    \A t \in Threads :
        (isOwner[t] /\ dpc[t] \in {"pop", "check", "ret"}) =>
            entries[dentry[t]].event

\* a waiter does not stay in entry.event.wait
WaiterReturns ==
    \A t \in LiveThreads : (dpc[t] = "wait") ~> (dpc[t] # "wait")

\* C38: the owner sets the event of its entry on every way out of fetch_fn,
\* by a return or by an exception, so that, the owner's fetch_fn coming to
\* an end, every waiter on the entry leaves its wait and returns or raises.
C38_WaiterLiveness ==
    /\ []SignalSet
    /\ WaiterReturns

\* a waiter has left its wait because the event was set, on an entry whose
\* fetch_fn raised
C38_Witness ==
    \E t \in LiveThreads :
        /\ dpc[t] = "check"
        /\ ~isOwner[t]
        /\ ~timedOut[t]
        /\ entries[dentry[t]].event
        /\ entries[dentry[t]].error # None


\* ------------------------------------------------------------------------
\* Properties of the eviction loop (SpecEvict)
\* ------------------------------------------------------------------------
\* the task is inside _get_or_create, holding _lock
InGetOrCreate == ppc[Getter] = "locked" /\ pfn[Getter] = "_get_or_create"

\* C39: the eviction loop of _get_or_create terminates for every configured
\* SESSION_POOL_SIZE, zero and negative values included: a task that is
\* inside _get_or_create leaves it, with an entry or with the exception of
\* _create_entry
C39_EvictionLoopTerminates ==
    InGetOrCreate ~> (ppc[Getter] = "idle")

\* ------------------------------------------------------------------------
\* Properties of the sessions in use (SpecUse)
\* ------------------------------------------------------------------------
\* no entry is evicted by _get_or_create of a task while another uses it
NotEvictedInUse == "evicted" \notin stolen

\* no entry is closed by _release(broken=True) of a task while another
\* uses it
NotBrokenInUse == "broken" \notin stolen

\* C40: the session a task got from _get_or_create is not closed by another
\* task before the holder reaches its _release, neither by an eviction nor
\* by a release with broken set
C40_HeldSessionStaysOpen ==
    /\ \A t \in Coroutines : hold[t] # NoSid => hold[t] \notin closedSids
    /\ NotEvictedInUse
    /\ NotBrokenInUse

====
